---- MODULE Spec2Model ----
(***************************************************************************)
(* Model of the evidence-matching pipeline of PolicyChecker:               *)
(*   OptimizedGeminiService  - request queue, retry, adaptive delay        *)
(*   OptimizedDriveService   - download queue and download cache           *)
(*   ParallelProcessor       - question / policy batching and aggregation  *)
(* All of them live in backend/src/controllers/process.controller.js.      *)
(* JavaScript runs one task at a time: every action below is one           *)
(* uninterrupted run of code between two suspension points (await,         *)
(* timer, promise reaction).                                               *)
(***************************************************************************)
EXTENDS Integers, Sequences, FiniteSets, TLC

VARIABLES
    \* ---- OptimizedGeminiService (constructor, lines 1271-1280)
    requestQueue,       \* this.requestQueue: requests waiting for dispatch
    processingQueue,    \* this.processingQueue
    activeRequests,     \* this.activeRequests
    requestHistory,     \* this.requestHistory: <<success, duration>> records
    adaptiveDelay,      \* this.adaptiveDelay, in units of 1/DelayScale ms
    req,                \* per request: position of executeRequest/makeGeminiRequest
    queueTimers,        \* pending 100 ms timers that will run processQueue
    failedCalls,        \* number of generateContent calls that have failed so far
    \* ---- OptimizedDriveService (constructor, lines 406-418)
    initialized,        \* this.initialized
    credentialsOk,      \* whether config.driveApiCredentials lets initialize() succeed
    downloadQueue,      \* this.downloadQueue
    processingDownloads,\* this.processingDownloads
    activeDownloads,    \* this.activeDownloads
    downloadCache,      \* this.downloadCache: the file ids that have cached bytes
    evictTimers,        \* per file id: pending 30-minute timers that delete its entry
    dl,                 \* per download request: position of executeDownload
    downloadTimers,     \* pending 100 ms timers that will run processDownloadQueue
    failedDownloads,    \* number of remote downloads that have failed so far
    \* ---- OptimizedPolicyService (constructor, lines 800-807)
    isLoaded,           \* this.isLoaded
    policyIndex,        \* this.policyIndex
    policyFileIdCache,  \* this.policyFileIdCache: "subfolder_name" -> file id
    relevanceScoringCache, \* this.relevanceScoringCache: signature -> ranking
    \* ---- ParallelProcessor (constructor, lines 10-17) and one run of
    \* ---- processQuestionsInParallel (lines 19-66)
    cache,              \* this.cache: document texts and judgments
    questions,          \* the questions array of the run
    processingStats,    \* processingStats
    evidenceByQuestion, \* evidenceByQuestion: question id -> evidence list
    runState,           \* idle, running, pausing (sleep 1000), returned
    currentBatch,       \* the number of the question batch being processed
    batchPauses,        \* how many 1000 ms pauses have been started
    task,               \* per question: position and locals of processQuestionParallel
    \* ---- the caches whose entries a timer deletes (lines 472, 502, 577, 605, 1057)
    now,                \* the clock, in units of MinutesPerTick
    cachedAt,           \* per cache key: when its entry was set, Absent if it has none
    evictionTimers,     \* per cache key: the times at which pending timers delete it
    fetching,           \* per cache key: calls that missed and wait for the remote
    lastSetAt,          \* when the ranking was set last, Absent if never
    clearedSince,       \* a clear has run since the ranking was set last
    cacheSets,          \* how many entries have been set so far
    lookup,             \* what the last lookup found
    \* ---- calls of single functions
    jcall,              \* per call of analyzyePolicyWithCache: its position and result
    rankCall,           \* the last call of findRelevantPolicies and what it returned
    pureCall,           \* the last call of a function without state and its result
    metadataCache,      \* OptimizedDriveService.metadataCache: the file ids it holds
    existCall,          \* a call of batchCheckPolicyExistence and where it is
    extractCall,        \* a call of extractQuestionsInChunksParallel and where it is
    scanCall            \* a call of findKeywordPositions and where it is

varsG == <<requestQueue, processingQueue, activeRequests, requestHistory,
           adaptiveDelay, req, queueTimers, failedCalls>>

varsD == <<initialized, credentialsOk, downloadQueue, processingDownloads,
           activeDownloads, downloadCache, evictTimers, dl, downloadTimers,
           failedDownloads>>

varsO == <<isLoaded, policyIndex, policyFileIdCache, relevanceScoringCache, cache,
           questions, processingStats, evidenceByQuestion, runState, currentBatch,
           batchPauses, task>>

varsC == <<now, cachedAt, evictionTimers, fetching, lastSetAt, clearedSince,
           cacheSets, lookup>>

varsF == <<jcall, rankCall, pureCall>>

varsX == <<metadataCache, existCall, extractCall, scanCall>>

vars == <<varsG, varsD, varsO, varsC, varsF, varsX>>

----------------------------------------------------------------------------
(* Bounds of the model *)

NumRequests == 4        \* requests handed to queuedGeminiRequest
MaxFailedCalls == 4     \* generateContent failures injected in one behaviour
CallLatencyMs == 500    \* time one generateContent call takes to return or fail

NumDownloads == 7       \* requests handed to downloadFileQueued
NumFiles == 2           \* file ids of the document store
MaxFailedDownloads == 1 \* remote download failures injected in one behaviour

NumQuestions == 5       \* questions of a run
NumPolicies == 11       \* entries of the policy index

MaxTime == 7            \* how far the clock of the caches runs, in ticks
MaxCacheSets == 3       \* cache entries set in one behaviour
MaxFetching == 1        \* calls that missed a cache and wait for the remote

NumJudgmentCalls == 3   \* calls of analyzyePolicyWithCache followed by themselves

MaxBatchedItems == 7    \* longest array handed to createBatches
MaxBatchSize == 4       \* largest batch size handed to createBatches
MaxHistory == 11        \* longest requestHistory handed to adjustAdaptiveDelay
MaxCheckedPolicies == 12 \* policies handed to batchCheckPolicyExistence
MaxCheckErrors == 1     \* remote errors of drive.files.get injected in one call
MaxRankCalls == 3       \* calls of findRelevantPolicies that are followed
MaxQuestionsInResponse == 3 \* complete questions in an extraction response
MaxMissingBraces == 3   \* closing braces missing from a judgment
MaxChunks == 4          \* chunks handed to extractQuestionsInChunksParallel
MaxQuestionsPerChunk == 2 \* questions the reasoning capability returns for a chunk
MaxTextLen == 9         \* longest text handed to splitTextIntoChunks
MaxScannedLen == 4      \* longest text handed to findKeywordPositions step by step
MaxPositions == 7       \* positions findKeywordPositions pushes in one behaviour
MaxChunkSize == 7       \* largest chunk size handed to splitTextIntoChunks

(* Program constants of OptimizedGeminiService *)

maxRetries == 3
baseDelay == 1000
maxConcurrentRequests == 3
InitialAdaptiveDelay == 1000
HistoryWindow == 10

DelayScale == 10 ^ 4

(* Program constants of OptimizedDriveService *)

maxConcurrentDownloads == 6
MaxCachedBytes == 5 * 1024 * 1024

Downloads == 1..NumDownloads
Files == 1..NumFiles

\* buffer.length of a file: odd file ids are small, even ones are exactly at
\* the 5 MB limit
FileBytes(f) == IF f % 2 = 1 THEN 1024 ELSE 5 * 1024 * 1024

Requests == 1..NumRequests

RECURSIVE SumSeq(_)
SumSeq(s) == IF s = <<>> THEN 0 ELSE Head(s) + SumSeq(Tail(s))

Min(a, b) == IF a < b THEN a ELSE b
Max(a, b) == IF a > b THEN a ELSE b

RECURSIVE Pow2(_)
Pow2(n) == IF n = 0 THEN 1 ELSE 2 * Pow2(n - 1)

RECURSIVE SumDurations(_)
SumDurations(h) == IF h = <<>> THEN 0 ELSE Head(h).duration + SumDurations(Tail(h))

LastN(s, n) == IF Len(s) <= n THEN s ELSE SubSeq(s, Len(s) - n + 1, Len(s))

----------------------------------------------------------------------------
(* OptimizedGeminiService *)

\* what an operation of OptimizedGeminiService leaves alone
FrameG == UNCHANGED <<varsD, varsO, varsC, varsF, varsX>>

\* st: where the request is (new, queued, calling, sleeping, done);
\* attempts/fails: generateContent calls made/failed; delays: the back-off sleeps;
\* settles: calls of request.resolve or request.reject; waited: it stayed in the queue
NewRequest == [st |-> "new", retryCount |-> 0, attempts |-> 0, fails |-> 0,
               delays |-> <<>>, settles |-> 0, outcome |-> "none", waited |-> FALSE]

\* processQueue, lines 1515-1517: the early return
ProcessQueueReturnsEarly(queue, active) ==
    processingQueue \/ Len(queue) = 0 \/ active >= maxConcurrentRequests

\* processQueue, line 1521: the loop condition
DispatchesMore(queue, active) ==
    Len(queue) > 0 /\ active < maxConcurrentRequests

\* processQueue, lines 1521-1528: how many requests one run of the loop shifts
RECURSIVE DispatchCount(_, _)
DispatchCount(queue, active) ==
    IF DispatchesMore(queue, active)
    THEN 1 + DispatchCount(Tail(queue), active + 1)
    ELSE 0

\* a queue that forgets the concurrency limit
ProcessQueueUnlimited(queue, active) ==
    IF processingQueue \/ Len(queue) = 0 THEN 0 ELSE Len(queue)

\* processQueue as a whole: the number of requests it starts
ProcessQueue(queue, active) ==
    IF ProcessQueueReturnsEarly(queue, active) THEN 0 ELSE DispatchCount(queue, active)

\* a back-off that grows linearly instead of doubling
RetryDelayLinear(retryCount) == baseDelay * (retryCount + 1)

\* makeGeminiRequest, line 1600
RetryDelay(retryCount) == baseDelay * Pow2(retryCount)

\* makeGeminiRequest, line 1599
MayRetry(retryCount) == retryCount < maxRetries

\* an adjustment that looks at the durations before the failures
AdjustedDelaySlowFirst(history, delay) ==
    LET h == LastN(history, HistoryWindow)
        recentFailures == Cardinality({i \in 1..Len(h) : ~h[i].success})
        sum == SumDurations(h)
    IN  IF sum > 8000 * Len(h)
        THEN Min((delay * 12) \div 10, 3000 * DelayScale)
        ELSE IF recentFailures > 2
        THEN Min((delay * 15) \div 10, 5000 * DelayScale)
        ELSE IF recentFailures = 0 /\ sum < 3000 * Len(h)
        THEN Max((delay * 9) \div 10, 500 * DelayScale)
        ELSE delay

\* adjustAdaptiveDelay, lines 1571-1583, on the history after the push
AdjustedDelay(history, delay) ==
    LET h == LastN(history, HistoryWindow)
        recentFailures == Cardinality({i \in 1..Len(h) : ~h[i].success})
        sum == SumDurations(h)
    IN  IF recentFailures > 2
        THEN Min((delay * 15) \div 10, 5000 * DelayScale)
        ELSE IF sum > 8000 * Len(h)
        THEN Min((delay * 12) \div 10, 3000 * DelayScale)
        ELSE IF recentFailures = 0 /\ sum < 3000 * Len(h)
        THEN Max((delay * 9) \div 10, 500 * DelayScale)
        ELSE delay

\* adjustAdaptiveDelay, lines 1569-1586: requestHistory and adaptiveDelay
\* after the call
adjustAdaptiveDelay(history, delay) ==
    [requestHistory |-> LastN(history, HistoryWindow),
     adaptiveDelay  |-> AdjustedDelay(history, delay)]

\* executeRequest, lines 1534, 1538 and 1552: endTime - startTime, which spans
\* every call of the request and every back-off sleep between them
Duration(rq) == rq.attempts * CallLatencyMs + SumSeq(rq.delays)

\* a settled request that schedules no timer: processQueue is not run again
ScheduleNoTimer(timers) == timers

\* executeRequest, line 1566: setTimeout(() => this.processQueue(), 100)
ScheduleTimer(timers) == timers + 1

\* the requests started by a run of processQueue: the first n of the queue
Started(queue, n) == {queue[i] : i \in 1..n}

StartCalls(rq, started) ==
    [r \in Requests |->
        IF r \in started
        THEN [rq[r] EXCEPT !.st = "calling", !.attempts = 1]
        ELSE rq[r]]

\* queuedGeminiRequest, lines 1500-1512: push, then processQueue runs to its end
QueuedGeminiRequest(r) ==
    /\ req[r].st = "new"
    /\ (IF r = 1 THEN TRUE ELSE req[r - 1].st # "new")
    /\ LET queue == Append(requestQueue, r)
           n == ProcessQueue(queue, activeRequests)
       IN  /\ requestQueue' = SubSeq(queue, n + 1, Len(queue))
           /\ activeRequests' = activeRequests + n
           /\ req' = StartCalls([req EXCEPT ![r].st = "queued",
                                              ![r].waited = (r \notin Started(queue, n))],
                                  Started(queue, n))
    /\ UNCHANGED <<processingQueue, requestHistory, adaptiveDelay, queueTimers,
                   failedCalls>>
    /\ FrameG

\* executeRequest, lines 1537-1549 and 1566: the call returned a response; then
\* the finally callback of processQueue, lines 1525-1527, which is the first
\* promise reaction to run after executeRequest returns
GenerateContentReturns(r) ==
    /\ req[r].st = "calling"
    /\ LET history == LastN(Append(requestHistory,
                  [success |-> TRUE, duration |-> Duration(req[r])]), HistoryWindow)
       IN  /\ requestHistory' = history
           /\ adaptiveDelay' = AdjustedDelay(history, adaptiveDelay)
    /\ req' = [req EXCEPT ![r].st = "done",
                          ![r].settles = @ + 1,
                          ![r].outcome = "resolved"]
    /\ queueTimers' = ScheduleTimer(queueTimers)
    /\ activeRequests' = activeRequests - 1
    /\ UNCHANGED <<requestQueue, processingQueue, failedCalls>>
    /\ FrameG

\* makeGeminiRequest, lines 1598-1604: the call failed and a retry is left
GenerateContentFailsRetry(r) ==
    /\ req[r].st = "calling"
    /\ failedCalls < MaxFailedCalls
    /\ MayRetry(req[r].retryCount)
    /\ req' = [req EXCEPT ![r].st = "sleeping",
                          ![r].fails = @ + 1,
                          ![r].delays = Append(@, RetryDelay(req[r].retryCount))]
    /\ failedCalls' = failedCalls + 1
    /\ UNCHANGED <<requestQueue, processingQueue, activeRequests, requestHistory,
                   adaptiveDelay, queueTimers>>
    /\ FrameG

\* makeGeminiRequest, line 1607, then executeRequest, lines 1551-1566, then the
\* finally callback of processQueue, lines 1525-1527
GenerateContentFailsLast(r) ==
    /\ req[r].st = "calling"
    /\ failedCalls < MaxFailedCalls
    /\ ~MayRetry(req[r].retryCount)
    /\ LET history == LastN(Append(requestHistory,
                  [success |-> FALSE, duration |-> Duration(req[r])]), HistoryWindow)
       IN  /\ requestHistory' = history
           /\ adaptiveDelay' = AdjustedDelay(history, adaptiveDelay)
    /\ req' = [req EXCEPT ![r].st = "done",
                          ![r].fails = @ + 1,
                          ![r].settles = @ + 1,
                          ![r].outcome = "rejected"]
    /\ queueTimers' = ScheduleTimer(queueTimers)
    /\ activeRequests' = activeRequests - 1
    /\ failedCalls' = failedCalls + 1
    /\ UNCHANGED <<requestQueue, processingQueue>>
    /\ FrameG

\* makeGeminiRequest, lines 1603-1604: the back-off sleep ends, the next call starts
RetrySleepDone(r) ==
    /\ req[r].st = "sleeping"
    /\ req' = [req EXCEPT ![r].st = "calling",
                          ![r].retryCount = @ + 1,
                          ![r].attempts = @ + 1]
    /\ UNCHANGED <<requestQueue, processingQueue, activeRequests, requestHistory,
                   adaptiveDelay, queueTimers, failedCalls>>
    /\ FrameG

\* executeRequest, line 1566: a 100 ms timer fires and runs processQueue
QueueTimerFires ==
    /\ queueTimers > 0
    /\ queueTimers' = queueTimers - 1
    /\ LET n == ProcessQueue(requestQueue, activeRequests)
       IN  /\ requestQueue' = SubSeq(requestQueue, n + 1, Len(requestQueue))
           /\ activeRequests' = activeRequests + n
           /\ req' = StartCalls(req, Started(requestQueue, n))
    /\ UNCHANGED <<processingQueue, requestHistory, adaptiveDelay, failedCalls>>
    /\ FrameG

IdleG ==
    /\ requestQueue = <<>>
    /\ processingQueue = FALSE
    /\ activeRequests = 0
    /\ requestHistory = <<>>
    /\ adaptiveDelay = InitialAdaptiveDelay * DelayScale
    /\ req = [r \in Requests |-> NewRequest]
    /\ queueTimers = 0
    /\ failedCalls = 0

\* what an operation of OptimizedDriveService leaves alone
FrameD == UNCHANGED <<varsG, varsO, varsC, varsF, varsX>>

\* st: where the request is (new, queued, failing, downloading, done);
\* file: the id asked for, while executeDownload needs it, or the id whose
\* cached bytes the request was resolved with; hit: answered from the download cache;
\* settles: calls of resolve or reject; waited: it stayed in the queue
NewDownload == [st |-> "new", file |-> 0, outcome |-> "none", settles |-> 0,
                hit |-> FALSE, waited |-> FALSE]

\* a download queue that forgets the concurrency limit
ProcessDownloadQueueUnlimited(queue, active) ==
    IF processingDownloads \/ Len(queue) = 0 THEN 0 ELSE Len(queue)

\* processDownloadQueue, line 538: the loop condition
DispatchesMoreDownloads(queue, active) ==
    Len(queue) > 0 /\ active < maxConcurrentDownloads

\* processDownloadQueue, lines 538-547: how many requests one run of the loop shifts
RECURSIVE DownloadDispatchCount(_, _)
DownloadDispatchCount(queue, active) ==
    IF DispatchesMoreDownloads(queue, active)
    THEN 1 + DownloadDispatchCount(Tail(queue), active + 1)
    ELSE 0

\* processDownloadQueue, lines 531-550: the number of requests it starts
ProcessDownloadQueue(queue, active) ==
    IF processingDownloads \/ Len(queue) = 0 \/ active >= maxConcurrentDownloads
    THEN 0
    ELSE DownloadDispatchCount(queue, active)

\* a download cache without the size limit
CacheableAnySize(f) == TRUE

\* executeDownload, line 574: only payloads under 5 MB are cached
Cacheable(f) == FileBytes(f) < MaxCachedBytes

\* a completion that schedules no further run of processDownloadQueue
RescheduleNever(timers) == timers

\* processDownloadQueue, line 545: setTimeout(() => this.processDownloadQueue(), 100)
RescheduleDownloads(timers) == timers + 1

\* executeDownload, lines 553-561, run by processDownloadQueue for each request
\* it shifts: ensureInitialized() either lets the remote call start or fails
StartDownloads(d, started, init) ==
    [r \in Downloads |->
        IF r \in started
        THEN [d[r] EXCEPT !.st = IF init THEN "downloading" ELSE "failing"]
        ELSE d[r]]

\* downloadFileQueued, lines 514-518: the file is in the download cache
DownloadFileQueuedHit(r, f) ==
    /\ dl[r].st = "new"
    /\ (IF r = 1 THEN TRUE ELSE dl[r - 1].st # "new")
    /\ f \in downloadCache
    /\ dl' = [dl EXCEPT ![r].st = "done", ![r].hit = TRUE, ![r].file = f,
                        ![r].settles = @ + 1, ![r].outcome = "resolved"]
    /\ UNCHANGED <<initialized, credentialsOk, downloadQueue, processingDownloads,
                   activeDownloads, downloadCache, evictTimers, downloadTimers,
                   failedDownloads>>
    /\ FrameD

\* downloadFileQueued, lines 520-527: push, then processDownloadQueue runs to its end
DownloadFileQueuedMiss(r, f) ==
    /\ dl[r].st = "new"
    /\ (IF r = 1 THEN TRUE ELSE dl[r - 1].st # "new")
    /\ f \notin downloadCache
    /\ LET queue == Append(downloadQueue, r)
           n == ProcessDownloadQueue(queue, activeDownloads)
           init == initialized \/ (n > 0 /\ credentialsOk)
       IN  /\ downloadQueue' = SubSeq(queue, n + 1, Len(queue))
           /\ activeDownloads' = activeDownloads + n
           /\ initialized' = init
           /\ dl' = StartDownloads([dl EXCEPT ![r].st = "queued", ![r].file = f,
                                              ![r].waited = (r \notin Started(queue, n))],
                                   Started(queue, n), init)
    /\ UNCHANGED <<credentialsOk, processingDownloads, downloadCache, evictTimers,
                   downloadTimers, failedDownloads>>
    /\ FrameD

\* executeDownload, lines 556 and 582-585: ensureInitialized() threw; then the
\* finally callback of processDownloadQueue, lines 542-546
ExecuteDownloadInitFails(r) ==
    /\ dl[r].st = "failing"
    /\ dl' = [dl EXCEPT ![r].st = "done", ![r].settles = @ + 1,
                        ![r].outcome = "rejected", ![r].file = 0]
    /\ activeDownloads' = activeDownloads - 1
    /\ downloadTimers' = RescheduleDownloads(downloadTimers)
    /\ UNCHANGED <<initialized, credentialsOk, downloadQueue, processingDownloads,
                   downloadCache, evictTimers, failedDownloads>>
    /\ FrameD

\* executeDownload, lines 561-580: the remote call returned the bytes; then the
\* finally callback of processDownloadQueue, lines 542-546
DownloadReturns(r) ==
    /\ dl[r].st = "downloading"
    /\ LET f == dl[r].file
       IN  IF Cacheable(f)
           THEN /\ downloadCache' = downloadCache \cup {f}
                /\ evictTimers' = [evictTimers EXCEPT ![f] = @ + 1]
           ELSE UNCHANGED <<downloadCache, evictTimers>>
    /\ dl' = [dl EXCEPT ![r].st = "done", ![r].settles = @ + 1,
                        ![r].outcome = "resolved", ![r].file = 0]
    /\ activeDownloads' = activeDownloads - 1
    /\ downloadTimers' = RescheduleDownloads(downloadTimers)
    /\ UNCHANGED <<initialized, credentialsOk, downloadQueue, processingDownloads,
                   failedDownloads>>
    /\ FrameD

\* executeDownload, lines 582-585: the remote call failed; then the finally
\* callback of processDownloadQueue, lines 542-546
DownloadFails(r) ==
    /\ dl[r].st = "downloading"
    /\ failedDownloads < MaxFailedDownloads
    /\ dl' = [dl EXCEPT ![r].st = "done", ![r].settles = @ + 1,
                        ![r].outcome = "rejected", ![r].file = 0]
    /\ activeDownloads' = activeDownloads - 1
    /\ downloadTimers' = RescheduleDownloads(downloadTimers)
    /\ failedDownloads' = failedDownloads + 1
    /\ UNCHANGED <<initialized, credentialsOk, downloadQueue, processingDownloads,
                   downloadCache, evictTimers>>
    /\ FrameD

\* processDownloadQueue, line 545: a 100 ms timer fires
DownloadTimerFires ==
    /\ downloadTimers > 0
    /\ downloadTimers' = downloadTimers - 1
    /\ LET n == ProcessDownloadQueue(downloadQueue, activeDownloads)
           init == initialized \/ (n > 0 /\ credentialsOk)
       IN  /\ downloadQueue' = SubSeq(downloadQueue, n + 1, Len(downloadQueue))
           /\ activeDownloads' = activeDownloads + n
           /\ initialized' = init
           /\ dl' = StartDownloads(dl, Started(downloadQueue, n), init)
    /\ UNCHANGED <<credentialsOk, processingDownloads, downloadCache, evictTimers,
                   failedDownloads>>
    /\ FrameD

\* executeDownload, line 577: a 30-minute timer deletes the cache entry
DownloadCacheExpires(f) ==
    /\ evictTimers[f] > 0
    /\ evictTimers' = [evictTimers EXCEPT ![f] = @ - 1]
    /\ downloadCache' = downloadCache \ {f}
    /\ UNCHANGED <<initialized, credentialsOk, downloadQueue, processingDownloads,
                   activeDownloads, dl, downloadTimers, failedDownloads>>
    /\ FrameD

IdleD ==
    /\ initialized = FALSE
    /\ downloadQueue = <<>>
    /\ processingDownloads = FALSE
    /\ activeDownloads = 0
    /\ downloadCache = {}
    /\ evictTimers = [f \in Files |-> 0]
    /\ dl = [r \in Downloads |-> NewDownload]
    /\ downloadTimers = 0
    /\ failedDownloads = 0

----------------------------------------------------------------------------
(* Strings. A JavaScript string is a TLA+ string; the characters used here
   are printable ASCII, so a UTF-16 code unit is an ASCII code. *)

\* F applied to the value of e; e is evaluated once, however often F uses it
WithValue(e, F(_)) == CHOOSE r \in {F(v) : v \in {e}} : TRUE

\* the array with the elements f[1], ..., f[Len(f)], each evaluated once
Array(f) == SubSeq(f, 1, Len(f))

\* the characters with the codes 32 to 126 in this order; a tab holds the
\* place of the backquote (code 96), which a TLA+ string cannot contain
Alphabet == " !\"#$%&'()*+,-./0123456789:;<=>?@ABCDEFGHIJKLMNOPQRSTUVWXYZ[\\]^_\tabcdefghijklmnopqrstuvwxyz{|}~"

\* str.charAt(i - 1): positions are counted from 1 here
charAt(str, i) == SubSeq(str, i, i)

\* str.charCodeAt(i - 1)
charCodeAt(str, i) ==
    31 + (CHOOSE k \in 1..Len(Alphabet) : charAt(Alphabet, k) = charAt(str, i))

\* the signed 32-bit integer with the 16-bit halves hi and lo
Int32(hi, lo) == (IF hi >= 32768 THEN hi - 65536 ELSE hi) * 65536 + lo

\* x * m, x + y and x * y reduced to signed 32-bit integers (0 <= m <= 256).
\* The operations are carried out on the 16-bit halves of x and on the bytes
\* of y, so that every intermediate value stays inside 32 bits.
Times32(x, m) ==
    LET lo == m * (x % 65536)
    IN  Int32((m * (x \div 65536) + (lo \div 65536)) % 65536, lo % 65536)

Add32(x, y) ==
    LET lo == (x % 65536) + (y % 65536)
    IN  Int32(((x \div 65536) + (y \div 65536) + (lo \div 65536)) % 65536, lo % 65536)

Mul32(x, y) ==
    LET xl == x % 65536
        xh == (x \div 65536) % 65536
        y0 == y % 256
        y1 == (y \div 256) % 256
        y2 == (y \div 65536) % 256
        y3 == (y \div 16777216) % 256
        lo == xl * y0 + ((xl * y1) % 256) * 256
        hi == (lo \div 65536) + ((xl * y1) \div 256) + xl * y2
              + ((xl * y3) % 256) * 256 + xh * y0 + ((xh * y1) % 256) * 256
    IN  Int32(hi % 65536, lo % 65536)

\* one round of the loop of simpleHash: hash = ((hash << 5) - hash) + char,
\* then hash & hash, i.e. 31 * hash + char reduced to a signed 32-bit integer
HashStep(hash, char) == Add32(Times32(hash, 31), char)

\* 31^n reduced to a signed 32-bit integer
RECURSIVE Pow31(_)
Pow31(n) ==
    IF n <= 6 THEN 31 ^ n
    ELSE WithValue(Pow31(n \div 2),
                   LAMBDA p : IF n % 2 = 0 THEN Mul32(p, p) ELSE Times32(Mul32(p, p), 31))

\* the value the loop of simpleHash reaches on the characters i..j when it
\* starts from 0. Running the loop on i..j is running it on i..m and
\* continuing on m+1..j, which multiplies by 31 once per character; the two
\* halves are evaluated separately to keep the evaluation shallow.
RECURSIVE HashOfRange(_, _, _)
HashOfRange(str, i, j) ==
    IF i > j THEN 0
    ELSE IF i = j THEN HashStep(0, charCodeAt(str, i))
    ELSE WithValue(<<HashOfRange(str, i, (i + j) \div 2),
                     HashOfRange(str, (i + j) \div 2 + 1, j),
                     Pow31(j - (i + j) \div 2)>>,
                   LAMBDA h : Add32(Mul32(h[1], h[3]), h[2]))

\* ParallelProcessor.simpleHash and OptimizedPolicyService.simpleHash (same code)
simpleHash(str) == WithValue(str, LAMBDA s : ToString(HashOfRange(s, 1, Len(s))))

\* str.substring(0, n)
substring0(str, n) == SubSeq(str, 1, Min(n, Len(str)))

\* str.includes(sub)
includes(str, sub) ==
    \E i \in 1..(Len(str) - Len(sub) + 1) : SubSeq(str, i, i + Len(sub) - 1) = sub

\* the lower-case letter of every upper-case letter: the character whose
\* code is 32 more
LowerCaseLetter ==
    [char \in {charAt(Alphabet, code - 31) : code \in 65..90} |->
        charAt(Alphabet, charCodeAt(char, 1) + 32 - 31)]

\* str.toLowerCase() on the characters i..j
RECURSIVE LowerCaseOfRange(_, _, _)
LowerCaseOfRange(str, i, j) ==
    IF i > j THEN ""
    ELSE IF i = j
         THEN IF charAt(str, i) \in DOMAIN LowerCaseLetter
              THEN LowerCaseLetter[charAt(str, i)]
              ELSE charAt(str, i)
    ELSE LowerCaseOfRange(str, i, (i + j) \div 2)
             \o LowerCaseOfRange(str, (i + j) \div 2 + 1, j)

toLowerCase(str) == WithValue(str, LAMBDA s : LowerCaseOfRange(s, 1, Len(s)))

\* str.split(' '): the pieces between the spaces, in order
splitSpaces(str) ==
    LET cuts    == {0, Len(str) + 1} \cup {i \in 1..Len(str) : charAt(str, i) = " "}
        nth(k)  == CHOOSE i \in cuts : Cardinality({j \in cuts : j < i}) = k - 1
    IN  [k \in 1..(Cardinality(cuts) - 1) |-> SubSeq(str, nth(k) + 1, nth(k + 1) - 1)]

\* the default comparison of Array.prototype.sort: by the first code unit
\* that differs, a proper prefix first
CompareStrings(a, b) ==
    LET differ == {i \in 1..Min(Len(a), Len(b)) : charAt(a, i) # charAt(b, i)}
        first  == CHOOSE i \in differ : \A j \in differ : i <= j
    IN  IF differ = {} THEN Len(a) - Len(b)
        ELSE charCodeAt(a, first) - charCodeAt(b, first)

\* array.join(sep)
RECURSIVE join(_, _)
join(array, sep) ==
    IF array = <<>> THEN ""
    ELSE IF Len(array) = 1 THEN array[1]
    ELSE array[1] \o sep \o join(Tail(array), sep)

\* Array.prototype.sort(compare) is a stable sort: element i goes behind every
\* element that compares before it and behind the equal elements that precede
\* it in the array.
StableSort(array, Compare(_, _)) ==
    LET Sorted(a) ==
            LET n == Len(a)
                rank(i) == Cardinality({j \in 1..n : Compare(a[j], a[i]) < 0})
                           + Cardinality({j \in 1..(i - 1) : Compare(a[j], a[i]) = 0})
                           + 1
                place == Array([i \in 1..n |-> rank(i)])
            IN  Array([k \in 1..n |-> a[CHOOSE i \in 1..n : place[i] = k]])
    IN  WithValue(Array(array), Sorted)

\* array.slice(0, n)
slice0(array, n) == SubSeq(array, 1, Min(n, Len(array)))

\* batches of full size only
createBatchesWholeOnly(array, batchSize) ==
    [b \in 1..(Len(array) \div batchSize) |->
        SubSeq(array, (b - 1) * batchSize + 1, b * batchSize)]

\* createBatches (lines 231-237 and 1848-1854)
createBatches(array, batchSize) ==
    [b \in 1..((Len(array) + batchSize - 1) \div batchSize) |->
        SubSeq(array, (b - 1) * batchSize + 1, Min(b * batchSize, Len(array)))]

\* an absent value (null) and a present one
Null == <<>>
Some(v) == <<v>>

----------------------------------------------------------------------------
(* OptimizedPolicyService: relevance ranking *)

\* the smallest element of a nonempty set of integers
MinOf(S) == CHOOSE m \in S : \A x \in S : m <= x

\* Row i of the matrix of levenshteinDistance from row i - 1 (prev); column j
\* of a row is stored at position j + 1. The code fills the row from left to
\* right: column 0 holds i, a column where the characters agree holds
\* matrix[i-1][j-1], and any other column holds one more than the smallest of
\* matrix[i-1][j-1], matrix[i-1][j] and the column to its left. Following "the
\* column to its left" back to the nearest column that is 0 or where the
\* characters agree gives every column without the columns beside it.
LevenshteinRow(str1, str2, i, prev) ==
    LET agree(j) == charAt(str2, i) = charAt(str1, j)
        fixed(j) == j = 0 \/ agree(j)
        held(j)  == IF j = 0 THEN i ELSE prev[j]
        above(j) == Min(prev[j], prev[j + 1]) + 1
        from(j)  == CHOOSE e \in 0..j : fixed(e) /\ \A k \in (e + 1)..j : ~fixed(k)
        entry(j) == IF fixed(j) THEN held(j)
                    ELSE MinOf({held(from(j)) + (j - from(j))}
                               \cup {above(k) + (j - k) : k \in (from(j) + 1)..j})
    IN  Array([p \in 1..(Len(str1) + 1) |-> entry(p - 1)])

RECURSIVE LevenshteinRows(_, _, _, _)
LevenshteinRows(str1, str2, i, prev) ==
    IF i > Len(str2) THEN prev
    ELSE WithValue(LevenshteinRow(str1, str2, i, prev),
                   LAMBDA row : LevenshteinRows(str1, str2, i + 1, row))

levenshteinDistance(str1, str2) ==
    LevenshteinRows(str1, str2, 1, Array([j \in 1..(Len(str1) + 1) |-> j - 1]))[Len(str1) + 1]

\* a match that is never found
fuzzyMatchNever(str1, str2) == FALSE

\* a match that needs more than the threshold
fuzzyMatchStrict(str1, str2) ==
    LET longer  == IF Len(str1) > Len(str2) THEN str1 ELSE str2
        shorter == IF Len(str1) > Len(str2) THEN str2 ELSE str1
    IN  IF Len(longer) = 0 THEN TRUE
        ELSE 10 * (Len(longer) - levenshteinDistance(longer, shorter)) > 7 * Len(longer)

\* fuzzyMatch with threshold 0.7: (longer.length - distance) / longer.length >= 0.7
fuzzyMatch(str1, str2) ==
    LET longer  == IF Len(str1) > Len(str2) THEN str1 ELSE str2
        shorter == IF Len(str1) > Len(str2) THEN str2 ELSE str1
    IN  IF Len(longer) = 0 THEN TRUE
        ELSE 10 * (Len(longer) - levenshteinDistance(longer, shorter)) >= 7 * Len(longer)

normalizeQuestion(question) ==
    [keywords    |-> Array([k \in 1..Len(question.keywords) |->
                               toLowerCase(question.keywords[k])]),
     category    |-> IF question.category = "" THEN "Other" ELSE question.category,
     text        |-> toLowerCase(question.text),
     description |-> toLowerCase(question.description)]

normalizePolicy(policy) ==
    [keywords    |-> Array([k \in 1..Len(policy.keywords) |->
                               toLowerCase(policy.keywords[k])]),
     category    |-> IF policy.category = "" THEN "Other" ELSE policy.category,
     description |-> toLowerCase(policy.short_description),
     name        |-> toLowerCase(policy.pdf_name)]

Bonus(condition, points) == IF condition THEN points ELSE 0

calculateRelevanceScore(question, policy) ==
    LET qk == question.keywords
        pk == policy.keywords
        words == SelectSeq(splitSpaces(question.text), LAMBDA w : Len(w) > 3)
    IN  Bonus(policy.category = question.category, 50)
        + SumSeq(Array([i \in 1..Len(qk) |-> SumSeq(Array([j \in 1..Len(pk) |->
              Bonus(includes(pk[j], qk[i]) \/ includes(qk[i], pk[j]), 20)
              + Bonus(pk[j] = qk[i], 30)
              + Bonus(fuzzyMatch(pk[j], qk[i]), 15)]))]))
        + SumSeq(Array([i \in 1..Len(qk) |-> Bonus(includes(policy.description, qk[i]), 10)]))
        + SumSeq(Array([i \in 1..Len(qk) |->
              Bonus(includes(policy.description, qk[i]) \/ includes(policy.name, qk[i]), 5)]))
        + SumSeq(Array([w \in 1..Len(words) |-> Bonus(includes(policy.description, words[w]), 3)]))

\* question.keywords after (question.keywords || []).sort()
SortedKeywords(question) == StableSort(question.keywords, CompareStrings)

createQuestionSignature(question) ==
    simpleHash(join(<<question.text, question.category,
                      join(SortedKeywords(question), ","), question.description>>, "|"))

CompareScores(a, b) == b.score - a.score

\* lines 1038-1048: score every policy, keep the positive scores, sort by
\* descending score, keep the first maxResults
RankPolicies(question, index, maxResults) ==
    LET Scored(nq) ==
            Array([p \in 1..Len(index) |->
                     [pdf_name |-> index[p].pdf_name, subfolder |-> index[p].subfolder,
                      category |-> index[p].category, keywords |-> index[p].keywords,
                      short_description |-> index[p].short_description,
                      score |-> WithValue(normalizePolicy(index[p]),
                                          LAMBDA np : calculateRelevanceScore(nq, np))]])
        Relevant(scored) ==
            slice0(StableSort(SelectSeq(scored, LAMBDA p : p.score > 0), CompareScores),
                   maxResults)
    IN  WithValue(WithValue(normalizeQuestion(question), Scored), Relevant)

----------------------------------------------------------------------------
(* The inputs of a run: the questions, the policy index, the document store
   and the answers of the reasoning capability. *)

\* questions[i] as extracted from the audit document. keywordsIsArray is FALSE
\* for a question whose "keywords" came back as a string instead of an array;
\* validateParsedResponse (line 1684) only asks for a truthy value.
QuestionInput(i) ==
    CASE i = 1 -> [id |-> 1, text |-> "Are audits kept",
                   category |-> "IT", keywords |-> <<"logs", "audit">>,
                   keywordsIsArray |-> TRUE, description |-> "audit"]
      [] i = 2 -> [id |-> 2, text |-> "Are audits kept",
                   category |-> "Other", keywords |-> <<"keep">>,
                   keywordsIsArray |-> TRUE, description |-> "files"]
      [] i = 3 -> [id |-> 3, text |-> "Is pay kept",
                   category |-> "HR", keywords |-> <<"payrol">>,
                   keywordsIsArray |-> TRUE, description |-> "pay"]
      [] i = 4 -> [id |-> 4, text |-> "Is access logged",
                   category |-> "Legal", keywords |-> <<"logs">>,
                   keywordsIsArray |-> TRUE, description |-> "log"]
      [] i = 5 -> [id |-> 5, text |-> "Who pays",
                   category |-> "Ops", keywords |-> <<"vendor">>,
                   keywordsIsArray |-> TRUE, description |-> "x"]
      [] OTHER -> [id |-> i, text |-> "Is data kept " \o ToString(i),
                   category |-> "Ops", keywords |-> <<"keep">>,
                   keywordsIsArray |-> TRUE, description |-> "keep"]

\* entry j of policy_index.json
CatalogueEntry(j) ==
    [pdf_name |-> "p" \o ToString(j) \o ".pdf",
     subfolder |-> IF j % 2 = 1 THEN "HR" ELSE "IT",
     category |-> IF j > 10 THEN "HR" ELSE IF j % 3 = 0 THEN "Legal" ELSE "IT",
     keywords |-> IF j > 10 THEN <<"payroll">>
                  ELSE IF j <= 2 THEN <<"audit", "keep">>
                  ELSE IF j = 5 THEN <<"audit", "Payroll">>
                  ELSE <<"audit">>,
     short_description |-> IF j = 4 THEN "kept logs" ELSE "doc"]

\* the file id that preloadPolicyMetadata found for entry j, "" if it found none
PreloadedFileId(j) == IF j = 10 THEN "" ELSE "f" \o ToString(j)

\* drive.files.get({fileId}) succeeds
DriveFileExists(fileId) == fileId # "f11"

\* str repeated n times
RECURSIVE repeat(_, _)
repeat(str, n) ==
    IF n = 0 THEN ""
    ELSE WithValue(repeat(str, n \div 2), LAMBDA half :
         IF n % 2 = 0 THEN half \o half ELSE half \o half \o str)

\* the first 1000 characters of the documents that are made from one template
TemplateHeader == repeat("Policy header. ", 66) \o "Scope: all"

\* pdfService.extractTextFromDriveFile(fileId): the cleaned text, or a failure
DriveFileText(fileId) ==
    CASE fileId \in {"f3", "f5"} -> [ok |-> FALSE, text |-> ""]
      [] fileId = "f7"           -> [ok |-> TRUE, text |-> ""]
      [] fileId \in {"f20", "f21"} ->
             [ok |-> TRUE, text |-> TemplateHeader \o " text of " \o fileId]
      [] OTHER                   -> [ok |-> TRUE, text |-> "text of " \o fileId]

\* what queuedGeminiRequest and parseJSONResponse give for a judgment prompt.
\* The prompt is made of question.text, the document name and the document
\* text (the keywords matter only for texts above 18000 characters, which the
\* store above does not hold), so the answer is a function of these three.
ReasoningAnswer(questionText, pdf_name, policyText) ==
    LET Answer(confidence, answer) ==
            [kind |-> "answer", confidence |-> confidence, answer |-> answer,
             evidence |-> substring0(policyText, 7)]
        NoAnswer == [kind |-> "noAnswer", confidence |-> "low", answer |-> "",
                     evidence |-> ""]
        Failure  == [kind |-> "error", confidence |-> "", answer |-> "", evidence |-> ""]
    IN  IF questionText = "Are audits kept"
        THEN CASE pdf_name = "p1.pdf" -> Answer("high", "no")
               [] pdf_name = "p2.pdf" -> Answer("high", "yes")
               [] pdf_name = "p4.pdf" -> Answer("medium", "yes")
               [] pdf_name = "p6.pdf" -> Failure
               [] pdf_name = "p8.pdf" -> Answer("high", "yes")
               [] pdf_name = "p9.pdf" -> Answer("high", "yes")
               [] pdf_name = "p20.pdf" -> Answer("high", "yes")
               [] OTHER               -> NoAnswer
        ELSE IF questionText = "Is pay kept" THEN NoAnswer
        ELSE CASE pdf_name = "p6.pdf" -> Answer("low", "partial")
               [] pdf_name = "p9.pdf" -> Answer("high", "partial")
               [] OTHER               -> Answer("high", "yes")

----------------------------------------------------------------------------
(* The caches with a time to live. Every one of them is a Map whose entry is
   set after a miss, together with a setTimeout that deletes the key:
     folders   fileListCache "folders_<id>"   10 minutes   lines 454-472
     pdfs      fileListCache "pdfs_<id>"       5 minutes   lines 484-502
     metadata  metadataCache                  15 minutes   lines 591-605
     download  downloadCache                  30 minutes   lines 513-517, 575-577
     ranking   relevanceScoringCache          30 minutes   lines 1028-1057
   One key of each is followed. A timer runs when it is due: the clock does
   not pass the due time of a pending timer. *)

FrameC == UNCHANGED <<varsG, varsD, varsO, varsF, varsX>>

DriveCacheKeys == {"folders", "pdfs", "metadata", "download"}
CacheKeys == DriveCacheKeys \cup {"ranking"}

MinutesPerTick == 5

\* timers that all wait 30 minutes
TimerMinutesAllThirty(key) == 30

\* the delay of the setTimeout that deletes the key, in minutes
TimerMinutes(key) ==
    CASE key = "folders"  -> 10
      [] key = "pdfs"     -> 5
      [] key = "metadata" -> 15
      [] key = "download" -> 30
      [] key = "ranking"  -> 30

\* the time to live of an entry, in ticks
TTL(key) == TimerMinutes(key) \div MinutesPerTick

Absent == 0 - 1

NoLookup == [key |-> "", hit |-> FALSE, age |-> Absent, sinceSet |-> Absent,
             cleared |-> FALSE]

\* what a lookup of key finds: whether it has an entry and how old the entry
\* is; for the ranking also how long ago it was set last and whether a clear
\* has run since
Found(key) ==
    [key |-> key, hit |-> cachedAt[key] # Absent,
     age |-> IF cachedAt[key] # Absent THEN now - cachedAt[key] ELSE Absent,
     sinceSet |-> IF key = "ranking" /\ lastSetAt # Absent THEN now - lastSetAt
                  ELSE Absent,
     cleared |-> key = "ranking" /\ clearedSince]

\* cache.set(key, value); setTimeout(() => cache.delete(key), ttl)
SetEntry(key) ==
    /\ cacheSets < MaxCacheSets
    /\ cachedAt' = [cachedAt EXCEPT ![key] = now]
    /\ evictionTimers' = [evictionTimers EXCEPT ![key] = @ \cup {now + TTL(key)}]
    /\ lastSetAt' = IF key = "ranking" THEN now ELSE lastSetAt
    /\ clearedSince' = (key # "ranking" /\ clearedSince)
    /\ cacheSets' = cacheSets + 1

\* cache.has(key) holds: the entry is returned (lines 455-458, 485-488,
\* 513-517, 591-593, 1028-1031)
CacheHit(key) ==
    /\ cachedAt[key] # Absent
    /\ lookup' = Found(key)
    /\ UNCHANGED <<now, cachedAt, evictionTimers, fetching, lastSetAt, clearedSince,
                   cacheSets>>
    /\ FrameC

\* cache.has(key) fails in one of the asynchronous services: the remote is asked
CacheMiss(key) ==
    /\ key \in DriveCacheKeys
    /\ cachedAt[key] = Absent
    /\ fetching["folders"] + fetching["pdfs"] + fetching["metadata"]
           + fetching["download"] < MaxFetching
    /\ lookup' = Found(key)
    /\ fetching' = [fetching EXCEPT ![key] = @ + 1]
    /\ UNCHANGED <<now, cachedAt, evictionTimers, lastSetAt, clearedSince, cacheSets>>
    /\ FrameC

\* the remote answers: the entry is set and its timer started
RemoteReturns(key) ==
    /\ fetching[key] > 0
    /\ SetEntry(key)
    /\ fetching' = [fetching EXCEPT ![key] = @ - 1]
    /\ UNCHANGED <<now, lookup>>
    /\ FrameC

\* the remote fails: nothing is cached
RemoteFails(key) ==
    /\ fetching[key] > 0
    /\ fetching' = [fetching EXCEPT ![key] = @ - 1]
    /\ UNCHANGED <<now, cachedAt, evictionTimers, lastSetAt, clearedSince, cacheSets,
                   lookup>>
    /\ FrameC

\* findRelevantPolicies misses, lines 1028-1057: it scores, sets the entry and
\* starts the timer before it returns
RankingMiss ==
    /\ cachedAt["ranking"] = Absent
    /\ lookup' = Found("ranking")
    /\ SetEntry("ranking")
    /\ UNCHANGED <<now, fetching>>
    /\ FrameC

\* the Maps named in keys are cleared; no timer is cancelled
ClearKeys(keys) ==
    /\ cachedAt' = [key \in CacheKeys |-> IF key \in keys THEN Absent ELSE cachedAt[key]]
    /\ clearedSince' = ("ranking" \in keys \/ clearedSince)
    /\ UNCHANGED <<now, evictionTimers, fetching, lastSetAt, cacheSets, lookup>>
    /\ FrameC

\* OptimizedDriveService.clearAllCaches, lines 776-781
ClearAllCaches ==
    /\ \E key \in DriveCacheKeys : cachedAt[key] # Absent
    /\ ClearKeys(DriveCacheKeys)

\* OptimizedPolicyService.clearCaches, lines 1256-1261
ClearCaches ==
    /\ \E key \in CacheKeys : cachedAt[key] # Absent
    /\ ClearKeys(CacheKeys)

\* a timer is due and deletes its key, whatever entry the key has by now
EvictionTimerFires(key, due) ==
    /\ due \in evictionTimers[key]
    /\ due <= now
    /\ evictionTimers' = [evictionTimers EXCEPT ![key] = @ \ {due}]
    /\ cachedAt' = [cachedAt EXCEPT ![key] = Absent]
    /\ UNCHANGED <<now, fetching, lastSetAt, clearedSince, cacheSets, lookup>>
    /\ FrameC

\* time passes when no timer is due
Tick ==
    /\ now < MaxTime
    /\ \A key \in CacheKeys : \A due \in evictionTimers[key] : due > now
    /\ now' = now + 1
    /\ UNCHANGED <<cachedAt, evictionTimers, fetching, lastSetAt, clearedSince,
                   cacheSets, lookup>>
    /\ FrameC

\* the server has started: the Maps are empty and no timer is pending
IdleC ==
    /\ now = 0
    /\ cachedAt = [key \in CacheKeys |-> Absent]
    /\ evictionTimers = [key \in CacheKeys |-> {}]
    /\ fetching = [key \in CacheKeys |-> 0]
    /\ lastSetAt = Absent
    /\ clearedSince = FALSE
    /\ cacheSets = 0
    /\ lookup = NoLookup

JudgmentCalls == 1..NumJudgmentCalls

\* st: new, waiting (for searchForComplianceEvidence), done; invoked: the
\* reasoning capability was called; repeated: when the call was made, a call
\* with the same cache key had completed before
NewJudgmentCall == [st |-> "new", question |-> 0, document |-> 0, invoked |-> FALSE,
                    repeated |-> FALSE, value |-> Null]

\* no single function has been called
IdleF ==
    /\ jcall = [c \in JudgmentCalls |-> NewJudgmentCall]
    /\ rankCall = Null
    /\ pureCall = Null

\* the metadata cache is empty; neither batchCheckPolicyExistence nor
\* extractQuestionsInChunksParallel has been called
IdleX ==
    /\ metadataCache = {}
    /\ existCall = Null
    /\ extractCall = Null
    /\ scanCall = Null

----------------------------------------------------------------------------
(* ParallelProcessor *)

\* what an operation of ParallelProcessor leaves alone: the reasoning and the
\* download queue are seen through their promises only
FrameO == UNCHANGED <<varsG, downloadQueue, processingDownloads, activeDownloads,
                      downloadCache, evictTimers, dl, downloadTimers,
                      failedDownloads, credentialsOk, varsC, varsF, varsX>>

maxConcurrentQuestions == 3
maxConcurrentPolicies == 5
maxConcurrentPolicyDownloads == 8
MaxRelevantPolicies == 10

\* st: where processQuestionParallel of a question is (new, checking,
\* downloading, downloadPause, analyzing, analysisPause, fulfilled, rejected);
\* slots: the settled result of every analysis task; judged: the positions for
\* which the reasoning capability was called; value: the returned list
NewTask == [st |-> "new", relevantPolicies |-> <<>>, existingPolicies |-> <<>>,
            policyContents |-> <<>>, downloadBatch |-> 0, pendingDownloads |-> {},
            policyBatch |-> 0, pendingJudgments |-> {}, slots |-> <<>>,
            judged |-> {}, candidates |-> <<>>, value |-> <<>>]

NewStats(n) == [totalQuestions |-> n, questionsProcessed |-> 0,
                totalPoliciesChecked |-> 0, evidenceFound |-> 0,
                compliantAnswers |-> 0, nonCompliantAnswers |-> 0]

Settled(t) == t.st \in {"fulfilled", "rejected"}

\* the positions that batch b of createBatches(array of length n, size) holds
BatchPositions(n, size, b) == ((b - 1) * size + 1)..Min(b * size, n)

NumBatchesOf(n, size) == (n + size - 1) \div size

\* findRelevantPolicies(question, maxResults), lines 1012-1060, with the
\* relevance cache rcache: whether it throws, the question after the in-place
\* sort of its keywords, the ranking and the cache afterwards
findRelevantPoliciesTop(question, maxResults, rcache) ==
    LET same == [throws |-> FALSE, question |-> question, policies |-> <<>>,
                 cache |-> rcache]
    IN  IF ~isLoaded THEN [same EXCEPT !.throws = TRUE]
        ELSE IF Len(policyIndex) = 0 THEN same
        ELSE IF ~question.keywordsIsArray THEN [same EXCEPT !.throws = TRUE]
        ELSE LET sorted    == [question EXCEPT !.keywords = SortedKeywords(question)]
                 signature == createQuestionSignature(question)
                 Miss(ranked) == [same EXCEPT !.question = sorted, !.policies = ranked,
                                              !.cache = (signature :> ranked) @@ rcache]
             IN  IF signature \in DOMAIN rcache
                 THEN [same EXCEPT !.question = sorted, !.policies = rcache[signature]]
                 ELSE WithValue(RankPolicies(sorted, policyIndex, maxResults), Miss)

\* findRelevantPolicies(question, 10), line 73
findRelevantPolicies(question, rcache) ==
    findRelevantPoliciesTop(question, MaxRelevantPolicies, rcache)

FileIdKey(policy) == policy.subfolder \o "_" \o policy.pdf_name

HasFileId(policy) == FileIdKey(policy) \in DOMAIN policyFileIdCache

\* ensureInitialized (called first by batchCheckFilesExist, line 661) throws
EnsureInitializedThrows == ~initialized /\ ~credentialsOk

\* throw instead of return
Rejects(t) == [t EXCEPT !.st = "rejected"]

\* return [], lines 77 and 86: the promise of the question is fulfilled with
\* the empty list
ReturnsEmpty(t) == [t EXCEPT !.st = "fulfilled"]

\* processQuestionParallel up to its first suspension, lines 68-81
BeginQuestion(question, rcache) ==
    LET Begin(r) ==
            LET t == [NewTask EXCEPT !.relevantPolicies = r.policies]
            IN  [question |-> r.question, cache |-> r.cache,
                 task |-> IF r.throws THEN [t EXCEPT !.st = "rejected"]
                          ELSE IF Len(r.policies) = 0 THEN ReturnsEmpty(t)
                          ELSE IF \A p \in 1..Len(r.policies) : ~HasFileId(r.policies[p])
                               THEN ReturnsEmpty(t)
                          ELSE IF EnsureInitializedThrows THEN [t EXCEPT !.st = "rejected"]
                          ELSE [t EXCEPT !.st = "checking"]]
    IN  WithValue(findRelevantPolicies(question, rcache), Begin)

\* batch.map(question => this.processQuestionParallel(...)), line 40: the
\* questions of the batch are started one after the other
RECURSIVE StartQuestions(_, _, _, _)
StartQuestions(batch, qs, rcache, tk) ==
    IF batch = <<>> THEN [questions |-> qs, cache |-> rcache, task |-> tk]
    ELSE LET i == Head(batch)
             Rest(r) == StartQuestions(Tail(batch), [qs EXCEPT ![i] = r.question],
                                       r.cache, [tk EXCEPT ![i] = r.task])
         IN  WithValue(BeginQuestion(qs[i], rcache), Rest)

\* an existence check that asks the preloaded file ids only
PolicyExistsUnchecked(policy) == HasFileId(policy)

\* policyChecks[p] of batchCheckPolicyExistence, lines 917-946
PolicyExists(policy) ==
    /\ HasFileId(policy)
    /\ DriveFileExists(policyFileIdCache[FileIdKey(policy)])

\* a cache key that leaves the name of the document out
ContentKeyOfFolder(policy) == "policy_" \o policy.subfolder

\* cacheKey of batchDownloadPolicies, line 171
ContentKey(policy) == "policy_" \o policy.subfolder \o "_" \o policy.pdf_name

AnalysisKey(questionText, policyText) ==
    "analysis_" \o simpleHash(questionText) \o "_"
                \o simpleHash(substring0(policyText, 1000))

\* a download result that is neither null nor the empty string
HasText(content) == content # Null /\ content[1] # ""

\* batch b of batchDownloadPolicies, lines 167-189: the cached texts are
\* taken at once, the others are requested
StartDownloadBatch(t, c, b) ==
    LET n      == Len(t.existingPolicies)
        batch  == BatchPositions(n, maxConcurrentPolicyDownloads, b)
        hit(i) == ContentKey(t.existingPolicies[i]) \in DOMAIN c
    IN  [t EXCEPT !.st = "downloading",
                  !.downloadBatch = b,
                  !.policyContents =
                      [i \in 1..n |-> IF i \in batch /\ hit(i)
                                      THEN Some(c[ContentKey(t.existingPolicies[i])])
                                      ELSE IF i \in batch THEN Null ELSE @[i]],
                  !.pendingDownloads = {i \in batch : ~hit(i)}]

\* a failed judgment that rejects the analysis task
AnalysisFailedRejects == [status |-> "rejected", value |-> Null]

\* what the analysis task settles with when the reasoning failed: the catch of
\* analyzyePolicyWithCache returns null, lines 225-228
AnalysisFailed == [status |-> "fulfilled", value |-> Null]

\* policy batch b, lines 98-110: no text settles with null, a cached judgment
\* is taken at once, the others go to the reasoning capability
StartPolicyBatch(text, t, c, b) ==
    LET n       == Len(t.existingPolicies)
        batch   == BatchPositions(n, maxConcurrentPolicies, b)
        key(i)  == AnalysisKey(text, t.policyContents[i][1])
        slot(i) == IF ~HasText(t.policyContents[i])
                   THEN [status |-> "fulfilled", value |-> Null]
                   ELSE IF key(i) \in DOMAIN c
                        THEN [status |-> "fulfilled", value |-> Some(c[key(i)])]
                        ELSE [status |-> "pending", value |-> Null]
        asked   == {i \in batch : slot(i).status = "pending"}
    IN  [t EXCEPT !.st = "analyzing",
                  !.policyBatch = b,
                  !.slots = [i \in 1..n |-> IF i \in batch THEN slot(i) ELSE @[i]],
                  !.pendingJudgments = asked,
                  !.judged = @ \cup asked]

\* confidenceOrder (line 138) and answerOrder (line 142)
confidenceOrder(confidence) ==
    CASE confidence = "high" -> 3 [] confidence = "medium" -> 2 [] confidence = "low" -> 1

\* an order of the answers that puts "no" before "yes"
answerOrderNoFirst(answer) ==
    CASE answer = "yes" -> 2 [] answer = "no" -> 3 [] answer = "partial" -> 1

answerOrder(answer) ==
    CASE answer = "yes" -> 3 [] answer = "no" -> 2 [] answer = "partial" -> 1

\* the comparison function of candidates.sort, lines 137-148
CompareCandidates(a, b) ==
    LET confDiff   == confidenceOrder(b.confidence) - confidenceOrder(a.confidence)
        answerDiff == answerOrder(b.answer) - answerOrder(a.answer)
    IN  IF confDiff # 0 THEN confDiff
        ELSE IF answerDiff # 0 THEN answerDiff
        ELSE b.score - a.score

\* a collection that counts a document as checked only when it gave no evidence
CollectOnlyMissesAsChecked(t, s) ==
    LET n       == Len(t.existingPolicies)
        first   == (t.policyBatch - 1) * maxConcurrentPolicies
        size    == Cardinality(BatchPositions(n, maxConcurrentPolicies, t.policyBatch))
        results == [k \in 1..size |-> t.slots[first + k]]
        settled == SelectSeq(results, LAMBDA r : r.status = "fulfilled")
        found   == SelectSeq(settled, LAMBDA r : r.value # Null)
        values  == [k \in 1..Len(found) |-> found[k].value[1]]
        cands   == t.candidates \o values
        s2      == [s EXCEPT
                      !.evidenceFound = @ + Len(values),
                      !.totalPoliciesChecked = @ + Len(settled) - Len(values),
                      !.compliantAnswers =
                          @ + Len(SelectSeq(values, LAMBDA v : v.answer = "yes")),
                      !.nonCompliantAnswers =
                          @ + Len(SelectSeq(values, LAMBDA v : v.answer = "no"))]
    IN  IF t.policyBatch < NumBatchesOf(n, maxConcurrentPolicies)
        THEN [t |-> [t EXCEPT !.st = "analysisPause", !.candidates = cands], s |-> s2]
        ELSE [t |-> [t EXCEPT !.st = "fulfilled", !.candidates = cands,
                              !.value = StableSort(cands, CompareCandidates)],
              s |-> s2]

\* lines 112-151 once every analysis task of the policy batch has settled:
\* the candidates are collected in the order of the batch, then the next
\* batch follows after 500 ms or the sorted list is returned
CollectPolicyBatch(t, s) ==
    LET n       == Len(t.existingPolicies)
        first   == (t.policyBatch - 1) * maxConcurrentPolicies
        size    == Cardinality(BatchPositions(n, maxConcurrentPolicies, t.policyBatch))
        results == [k \in 1..size |-> t.slots[first + k]]
        settled == SelectSeq(results, LAMBDA r : r.status = "fulfilled")
        found   == SelectSeq(settled, LAMBDA r : r.value # Null)
        values  == [k \in 1..Len(found) |-> found[k].value[1]]
        cands   == t.candidates \o values
        s2      == [s EXCEPT
                      !.evidenceFound = @ + Len(values),
                      !.totalPoliciesChecked = @ + Len(settled),
                      !.compliantAnswers =
                          @ + Len(SelectSeq(values, LAMBDA v : v.answer = "yes")),
                      !.nonCompliantAnswers =
                          @ + Len(SelectSeq(values, LAMBDA v : v.answer = "no"))]
    IN  IF t.policyBatch < NumBatchesOf(n, maxConcurrentPolicies)
        THEN [t |-> [t EXCEPT !.st = "analysisPause", !.candidates = cands], s |-> s2]
        ELSE [t |-> [t EXCEPT !.st = "fulfilled", !.candidates = cands,
                              !.value = StableSort(cands, CompareCandidates)],
              s |-> s2]

\* await Promise.allSettled(batchPromises), line 112
AfterPolicyBatch(t, s) ==
    IF t.pendingJudgments # {} THEN [t |-> t, s |-> s] ELSE CollectPolicyBatch(t, s)

\* await Promise.allSettled(batchPromises), line 191, and what follows it: a
\* pause of 300 ms before the next download batch, or the first policy batch
AfterDownloadBatch(text, t, c, s) ==
    IF t.pendingDownloads # {} THEN [t |-> t, s |-> s]
    ELSE IF t.downloadBatch < NumBatchesOf(Len(t.existingPolicies),
                                           maxConcurrentPolicyDownloads)
         THEN [t |-> [t EXCEPT !.st = "downloadPause"], s |-> s]
         ELSE AfterPolicyBatch(StartPolicyBatch(text, t, c, 1), s)

\* createBatches(questions, 3), by position in questions
questionBatches ==
    createBatches([i \in 1..Len(questions) |-> i], maxConcurrentQuestions)

\* batchResults.forEach, lines 47-57, stopping at the first rejected question
RECURSIVE CollectResultsUntilRejected(_, _, _)
CollectResultsUntilRejected(evidence, batch, tk) ==
    IF batch = <<>> \/ tk[Head(batch)].st = "rejected" THEN evidence
    ELSE CollectResultsUntilRejected(
             (questions[Head(batch)].id :> tk[Head(batch)].value) @@ evidence,
             Tail(batch), tk)

\* batchResults.forEach, lines 47-57
RECURSIVE CollectResults(_, _, _)
CollectResults(evidence, batch, tk) ==
    IF batch = <<>> THEN evidence
    ELSE LET i     == Head(batch)
             value == IF tk[i].st = "fulfilled" THEN tk[i].value ELSE <<>>
         IN  CollectResults((questions[i].id :> value) @@ evidence, Tail(batch), tk)

\* a pause after every batch, the last one included
PauseAfterEveryBatch(b, n) == TRUE

\* questionBatches.indexOf(batch) < questionBatches.length - 1, line 60
HasNextBatch(b, n) == b < n

\* the body of the loop of processQuestionsInParallel up to its await, lines 37-44
StartBatch(b) ==
    \E r \in {StartQuestions(questionBatches[b], questions, relevanceScoringCache, task)} :
        /\ questions' = r.questions
        /\ relevanceScoringCache' = r.cache
        /\ task' = r.task
        /\ currentBatch' = b
        /\ runState' = "running"
        /\ initialized' = (initialized \/ \E i \in 1..Len(questions) :
                                              r.task[i].st = "checking")

\* processQuestionsInParallel is called, lines 19-44
ProcessQuestionsInParallel ==
    /\ runState = "idle"
    /\ Len(questions) > 0
    /\ processingStats' = NewStats(Len(questions))
    /\ evidenceByQuestion' = <<>>
    /\ batchPauses' = 0
    /\ StartBatch(1)
    /\ UNCHANGED <<isLoaded, policyIndex, policyFileIdCache, cache>>
    /\ FrameO

\* the existence checks of a question have settled, lines 81-91
ExistenceChecked(q) ==
    /\ runState = "running"
    /\ task[q].st = "checking"
    /\ LET existing == SelectSeq(task[q].relevantPolicies, PolicyExists)
           n  == Len(existing)
           t1 == [task[q] EXCEPT
                     !.existingPolicies = existing,
                     !.policyContents = [i \in 1..n |-> Null],
                     !.slots = [i \in 1..n |-> [status |-> "none", value |-> Null]]]
           r  == IF n = 0
                 THEN [t |-> ReturnsEmpty(t1), s |-> processingStats]
                 ELSE AfterDownloadBatch(questions[q].text,
                                         StartDownloadBatch(t1, cache, 1),
                                         cache, processingStats)
       IN  /\ task' = [task EXCEPT ![q] = r.t]
           /\ processingStats' = r.s
    /\ UNCHANGED <<questions, isLoaded, policyIndex, policyFileIdCache,
                   relevanceScoringCache, cache, evidenceByQuestion, runState,
                   currentBatch, batchPauses, initialized>>
    /\ FrameO

\* extractTextFromDriveFile returns the text of a document, lines 178-184
ExtractTextReturns(q, i) ==
    /\ task[q].st = "downloading"
    /\ i \in task[q].pendingDownloads
    /\ LET policy == task[q].existingPolicies[i]
           file   == DriveFileText(policyFileIdCache[FileIdKey(policy)])
           c2     == (ContentKey(policy) :> file.text) @@ cache
           t2     == [task[q] EXCEPT !.pendingDownloads = @ \ {i},
                                     !.policyContents[i] = Some(file.text)]
           r      == AfterDownloadBatch(questions[q].text, t2, c2, processingStats)
       IN  /\ file.ok
           /\ cache' = c2
           /\ task' = [task EXCEPT ![q] = r.t]
           /\ processingStats' = r.s
    /\ UNCHANGED <<questions, isLoaded, policyIndex, policyFileIdCache,
                   relevanceScoringCache, evidenceByQuestion, runState,
                   currentBatch, batchPauses, initialized>>
    /\ FrameO

\* extractTextFromDriveFile throws, lines 185-188: the document has no text
ExtractTextThrows(q, i) ==
    /\ task[q].st = "downloading"
    /\ i \in task[q].pendingDownloads
    /\ LET policy == task[q].existingPolicies[i]
           file   == DriveFileText(policyFileIdCache[FileIdKey(policy)])
           t2     == [task[q] EXCEPT !.pendingDownloads = @ \ {i},
                                     !.policyContents[i] = Null]
           r      == AfterDownloadBatch(questions[q].text, t2, cache, processingStats)
       IN  /\ ~file.ok
           /\ task' = [task EXCEPT ![q] = r.t]
           /\ processingStats' = r.s
    /\ UNCHANGED <<questions, isLoaded, policyIndex, policyFileIdCache,
                   relevanceScoringCache, cache, evidenceByQuestion, runState,
                   currentBatch, batchPauses, initialized>>
    /\ FrameO

\* the 300 ms pause between two download batches ends, line 198
DownloadPauseDone(q) ==
    /\ task[q].st = "downloadPause"
    /\ LET r == AfterDownloadBatch(
                    questions[q].text,
                    StartDownloadBatch(task[q], cache, task[q].downloadBatch + 1),
                    cache, processingStats)
       IN  /\ task' = [task EXCEPT ![q] = r.t]
           /\ processingStats' = r.s
    /\ UNCHANGED <<questions, isLoaded, policyIndex, policyFileIdCache,
                   relevanceScoringCache, cache, evidenceByQuestion, runState,
                   currentBatch, batchPauses, initialized>>
    /\ FrameO

\* the judgment of a document returns, lines 1432-1448 and 217-224: evidence is
\* built and cached when the answer has one
SearchForComplianceEvidenceReturns(q, i) ==
    /\ task[q].st = "analyzing"
    /\ i \in task[q].pendingJudgments
    /\ LET policy   == task[q].existingPolicies[i]
           text     == task[q].policyContents[i][1]
           analysis == ReasoningAnswer(questions[q].text, policy.pdf_name, text)
           evidence == [docName |-> policy.pdf_name, subfolder |-> policy.subfolder,
                        answer |-> analysis.answer, evidence |-> analysis.evidence,
                        confidence |-> analysis.confidence, score |-> policy.score]
           found    == analysis.kind = "answer"
           c2       == IF found
                       THEN (AnalysisKey(questions[q].text, text) :> evidence) @@ cache
                       ELSE cache
           t2       == [task[q] EXCEPT
                          !.pendingJudgments = @ \ {i},
                          !.slots[i] = [status |-> "fulfilled",
                                        value |-> IF found THEN Some(evidence) ELSE Null]]
           r        == AfterPolicyBatch(t2, processingStats)
       IN  /\ analysis.kind # "error"
           /\ cache' = c2
           /\ task' = [task EXCEPT ![q] = r.t]
           /\ processingStats' = r.s
    /\ UNCHANGED <<questions, isLoaded, policyIndex, policyFileIdCache,
                   relevanceScoringCache, evidenceByQuestion, runState,
                   currentBatch, batchPauses, initialized>>
    /\ FrameO

\* the judgment of a document fails (the request was rejected after its
\* retries, or the response could not be parsed), lines 1449-1452 and 225-228
SearchForComplianceEvidenceThrows(q, i) ==
    /\ task[q].st = "analyzing"
    /\ i \in task[q].pendingJudgments
    /\ LET policy   == task[q].existingPolicies[i]
           text     == task[q].policyContents[i][1]
           analysis == ReasoningAnswer(questions[q].text, policy.pdf_name, text)
           t2       == [task[q] EXCEPT !.pendingJudgments = @ \ {i},
                                       !.slots[i] = AnalysisFailed]
           r        == AfterPolicyBatch(t2, processingStats)
       IN  /\ analysis.kind = "error"
           /\ task' = [task EXCEPT ![q] = r.t]
           /\ processingStats' = r.s
    /\ UNCHANGED <<questions, isLoaded, policyIndex, policyFileIdCache,
                   relevanceScoringCache, cache, evidenceByQuestion, runState,
                   currentBatch, batchPauses, initialized>>
    /\ FrameO

\* the 500 ms pause between two policy batches ends, line 133
AnalysisPauseDone(q) ==
    /\ task[q].st = "analysisPause"
    /\ LET r == AfterPolicyBatch(
                    StartPolicyBatch(questions[q].text, task[q], cache,
                                     task[q].policyBatch + 1),
                    processingStats)
       IN  /\ task' = [task EXCEPT ![q] = r.t]
           /\ processingStats' = r.s
    /\ UNCHANGED <<questions, isLoaded, policyIndex, policyFileIdCache,
                   relevanceScoringCache, cache, evidenceByQuestion, runState,
                   currentBatch, batchPauses, initialized>>
    /\ FrameO

\* every question of the batch has settled, lines 44-65: the results are
\* collected, then the run pauses for 1000 ms or returns
CollectBatchResults ==
    /\ runState = "running"
    /\ \A k \in 1..Len(questionBatches[currentBatch]) :
           Settled(task[questionBatches[currentBatch][k]])
    /\ evidenceByQuestion' =
           CollectResults(evidenceByQuestion, questionBatches[currentBatch], task)
    /\ processingStats' =
           [processingStats EXCEPT
               !.questionsProcessed = @ + Len(questionBatches[currentBatch])]
    /\ IF HasNextBatch(currentBatch, Len(questionBatches))
       THEN runState' = "pausing" /\ batchPauses' = batchPauses + 1
       ELSE runState' = "returned" /\ batchPauses' = batchPauses
    /\ UNCHANGED <<questions, isLoaded, policyIndex, policyFileIdCache,
                   relevanceScoringCache, cache, currentBatch, task, initialized>>
    /\ FrameO

\* the 1000 ms pause between two question batches ends, line 61
QuestionBatchPauseDone ==
    /\ runState = "pausing"
    /\ IF currentBatch < Len(questionBatches)
       THEN StartBatch(currentBatch + 1)
       ELSE /\ runState' = "returned"
            /\ UNCHANGED <<questions, relevanceScoringCache, task, currentBatch,
                           initialized>>
    /\ UNCHANGED <<isLoaded, policyIndex, policyFileIdCache, cache,
                   processingStats, evidenceByQuestion, batchPauses>>
    /\ FrameO

\* the clearCache endpoint, lines 393-398, after a run: it calls
\* parallelProcessor.clearCache (lines 253-256), which clears this.cache.
\* Clearing an empty cache changes nothing.
ClearCacheEndpoint ==
    /\ runState = "returned"
    /\ DOMAIN cache # {}
    /\ cache' = <<>>
    /\ UNCHANGED <<isLoaded, policyIndex, policyFileIdCache, relevanceScoringCache,
                   questions, processingStats, evidenceByQuestion, runState,
                   currentBatch, batchPauses, task, initialized>>
    /\ FrameO

\* nothing has been loaded and no run has been started
IdleO ==
    /\ questions = <<>>
    /\ isLoaded = FALSE
    /\ policyIndex = <<>>
    /\ policyFileIdCache = <<>>
    /\ relevanceScoringCache = <<>>
    /\ cache = <<>>
    /\ processingStats = NewStats(0)
    /\ evidenceByQuestion = <<>>
    /\ runState = "idle"
    /\ currentBatch = 0
    /\ batchPauses = 0
    /\ task = <<>>

\* policyFileIdCache after preloadPolicyMetadata, lines 893-905
PreloadedFileIds ==
    LET found == {j \in 1..NumPolicies : PreloadedFileId(j) # ""}
    IN  [key \in {FileIdKey(CatalogueEntry(j)) : j \in found} |->
            PreloadedFileId(CHOOSE j \in found : FileIdKey(CatalogueEntry(j)) = key)]

\* the documents whose text earlier runs have left in the cache of the
\* processor, which lives as long as the server (line 266)
CachedDocuments == {1, 2, 4, 6, 8}

CachedTexts ==
    [key \in {ContentKey(CatalogueEntry(j)) : j \in CachedDocuments} |->
        LET j == CHOOSE d \in CachedDocuments : ContentKey(CatalogueEntry(d)) = key
        IN  DriveFileText(PreloadedFileId(j)).text]

\* A run is about to start. Either loadPolicyIndex has succeeded (the index is
\* loaded, the Drive client is initialized, the file ids are preloaded) or it
\* has failed (lines 837-840). The keywords of question 3 may have come back
\* as a string.
InitO ==
    /\ IdleG
    /\ IdleC
    /\ IdleF
    /\ downloadQueue = <<>>
    /\ processingDownloads = FALSE
    /\ activeDownloads = 0
    /\ downloadCache = {}
    /\ evictTimers = [f \in Files |-> 0]
    /\ dl = [r \in Downloads |-> NewDownload]
    /\ downloadTimers = 0
    /\ failedDownloads = 0
    /\ credentialsOk \in BOOLEAN
    /\ isLoaded \in BOOLEAN
    /\ isLoaded => credentialsOk
    /\ initialized = isLoaded
    /\ policyIndex = IF isLoaded THEN [j \in 1..NumPolicies |-> CatalogueEntry(j)]
                     ELSE <<>>
    /\ policyFileIdCache = IF isLoaded THEN PreloadedFileIds ELSE <<>>
    /\ \E malformed \in BOOLEAN :
          questions = [i \in 1..NumQuestions |->
                          [QuestionInput(i) EXCEPT
                              !.keywordsIsArray = ~(malformed /\ i = 3)]]
    /\ relevanceScoringCache = <<>>
    /\ cache = IF isLoaded THEN CachedTexts ELSE <<>>
    /\ processingStats = NewStats(0)
    /\ evidenceByQuestion = <<>>
    /\ runState = "idle"
    /\ currentBatch = 0
    /\ batchPauses = 0
    /\ task = [i \in 1..NumQuestions |-> NewTask]
    /\ IdleX

NextO ==
    \/ ProcessQuestionsInParallel
    \/ \E q \in 1..NumQuestions :
        \/ ExistenceChecked(q)
        \/ DownloadPauseDone(q)
        \/ AnalysisPauseDone(q)
        \/ \E i \in 1..MaxRelevantPolicies :
            \/ ExtractTextReturns(q, i)
            \/ ExtractTextThrows(q, i)
            \/ SearchForComplianceEvidenceReturns(q, i)
            \/ SearchForComplianceEvidenceThrows(q, i)
    \/ CollectBatchResults
    \/ QuestionBatchPauseDone
    \/ ClearCacheEndpoint

SpecProcessor == InitO /\ [][NextO]_vars

----------------------------------------------------------------------------
(* analyzyePolicyWithCache by itself, lines 205-229: calls made one after the
   other or concurrently against the cache of the processor *)

FrameJ == UNCHANGED <<varsG, varsD, varsC, isLoaded, policyIndex, policyFileIdCache,
                      relevanceScoringCache, questions, processingStats,
                      evidenceByQuestion, runState, currentBatch, batchPauses, task,
                      rankCall, pureCall, varsX>>

\* the questions and the documents the calls are made with
JudgedQuestions == {1, 3}
JudgedDocuments == {1, 6, 20, 21}

\* the arguments of a call: the question, the text of the document and its
\* scored index entry
JudgedText(j) == DriveFileText(PreloadedFileId(j)).text
JudgedPolicy(j) == [pdf_name |-> CatalogueEntry(j).pdf_name,
                    subfolder |-> CatalogueEntry(j).subfolder, score |-> 10 * j]

\* cacheKey of line 209 for every question and document of the calls
JudgedKeys ==
    [q \in JudgedQuestions |-> [j \in JudgedDocuments |->
        AnalysisKey(QuestionInput(q).text, JudgedText(j))]]

JudgedKey(q, j) == JudgedKeys[q][j]

CallKey(c) == JudgedKey(jcall[c].question, jcall[c].document)

\* a call with the same key as (q, j) has completed
CompletedBefore(q, j) ==
    \E d \in JudgmentCalls :
        /\ jcall[d].st = "done"
        /\ CallKey(d) = JudgedKey(q, j)

\* analyzyePolicyWithCache is called and finds the key in the cache, lines 207-214
AnalyzePolicyCacheHit(c, q, j) ==
    /\ jcall[c].st = "new"
    /\ JudgedKey(q, j) \in DOMAIN cache
    /\ jcall' = [jcall EXCEPT ![c] =
                    [st |-> "done", question |-> q, document |-> j, invoked |-> FALSE,
                     repeated |-> CompletedBefore(q, j),
                     value |-> Some(cache[JudgedKey(q, j)])]]
    /\ UNCHANGED cache
    /\ FrameJ

\* analyzyePolicyWithCache is called and misses, lines 207-217: the reasoning
\* capability is asked
AnalyzePolicyCacheMiss(c, q, j) ==
    /\ jcall[c].st = "new"
    /\ JudgedKey(q, j) \notin DOMAIN cache
    /\ jcall' = [jcall EXCEPT ![c] =
                    [st |-> "waiting", question |-> q, document |-> j,
                     invoked |-> TRUE, repeated |-> CompletedBefore(q, j),
                     value |-> Null]]
    /\ UNCHANGED cache
    /\ FrameJ

\* searchForComplianceEvidence returns, lines 217-224: evidence is cached,
\* null is not
JudgmentReturns(c) ==
    /\ jcall[c].st = "waiting"
    /\ LET policy   == JudgedPolicy(jcall[c].document)
           analysis == ReasoningAnswer(QuestionInput(jcall[c].question).text,
                                       policy.pdf_name, JudgedText(jcall[c].document))
           evidence == [docName |-> policy.pdf_name, subfolder |-> policy.subfolder,
                        answer |-> analysis.answer, evidence |-> analysis.evidence,
                        confidence |-> analysis.confidence, score |-> policy.score]
           found    == analysis.kind = "answer"
       IN  /\ analysis.kind # "error"
           /\ cache' = IF found THEN (CallKey(c) :> evidence) @@ cache ELSE cache
           /\ jcall' = [jcall EXCEPT ![c].st = "done",
                                     ![c].value = IF found THEN Some(evidence) ELSE Null]
    /\ FrameJ

\* searchForComplianceEvidence throws, lines 225-228
JudgmentThrows(c) ==
    /\ jcall[c].st = "waiting"
    /\ ReasoningAnswer(QuestionInput(jcall[c].question).text,
                       JudgedPolicy(jcall[c].document).pdf_name,
                       JudgedText(jcall[c].document)).kind = "error"
    /\ jcall' = [jcall EXCEPT ![c].st = "done", ![c].value = Null]
    /\ UNCHANGED cache
    /\ FrameJ

----------------------------------------------------------------------------
(* JSON. JSON.parse is modelled on the texts the reasoning capability can
   return here: objects, arrays, strings with the escapes \" and \\,
   unsigned integers, true, false and null, separated by spaces. A parsed
   value is a node [type, text, items]: text holds the characters of a
   string or the digits of a number, items the members of an object (key and
   value) or the elements of an array (key ""). *)

JNode(type, text, items) == [type |-> type, text |-> text, items |-> items]

JNull == JNode("null", "", <<>>)

\* the character at position i of str (positions from 1), "" outside of it
At(str, i) == IF i >= 1 /\ i <= Len(str) THEN SubSeq(str, i, i) ELSE ""

Digits == {"0", "1", "2", "3", "4", "5", "6", "7", "8", "9"}

\* str.startsWith(prefix) and str.endsWith(suffix)
startsWith(str, prefix) ==
    Len(prefix) <= Len(str) /\ SubSeq(str, 1, Len(prefix)) = prefix

endsWith(str, suffix) ==
    Len(suffix) <= Len(str)
    /\ SubSeq(str, Len(str) - Len(suffix) + 1, Len(str)) = suffix

\* the first position from i on that holds no white space
RECURSIVE SkipSpace(_, _)
SkipSpace(str, i) == IF At(str, i) = " " THEN SkipSpace(str, i + 1) ELSE i

\* the last position up to i that holds no white space
RECURSIVE SkipSpaceBack(_, _)
SkipSpaceBack(str, i) == IF At(str, i) = " " THEN SkipSpaceBack(str, i - 1) ELSE i

\* str.trim()
trim(str) == SubSeq(str, SkipSpace(str, 1), SkipSpaceBack(str, Len(str)))

\* the first position from i on that holds no digit
RECURSIVE SkipDigits(_, _)
SkipDigits(str, i) == IF At(str, i) \in Digits THEN SkipDigits(str, i + 1) ELSE i

\* str.indexOf(pattern, from - 1) + 1: the first position from `from' on
\* where pattern occurs, 0 when there is none.  A start behind the end of str
\* is the end of str, where the empty pattern is found.
indexOf(str, pattern, from) ==
    LET places == {p \in Min(from, Len(str) + 1)..(Len(str) - Len(pattern) + 1) :
                      SubSeq(str, p, p + Len(pattern) - 1) = pattern}
    IN  IF places = {} THEN 0
        ELSE CHOOSE p \in places : \A q \in places : p <= q

ParseFailed == [ok |-> FALSE, value |-> JNull, next |-> 0]

Parsed(value, next) == [ok |-> TRUE, value |-> value, next |-> next]

\* a string literal that opens at position i - 1: text is what has been read
\* of it, i the position to read next
RECURSIVE ParseString(_, _, _)
ParseString(str, i, text) ==
    IF At(str, i) = "" THEN ParseFailed
    ELSE IF At(str, i) = "\"" THEN Parsed(JNode("string", text, <<>>), i + 1)
    ELSE IF At(str, i) = "\\"
         THEN IF At(str, i + 1) \in {"\"", "\\"}
              THEN ParseString(str, i + 2, text \o At(str, i + 1))
              ELSE ParseFailed
    ELSE ParseString(str, i + 1, text \o At(str, i))

\* a number that starts at position i: no leading zero
ParseNumber(str, i) ==
    IF At(str, i) = "0" /\ At(str, i + 1) \in Digits THEN ParseFailed
    ELSE Parsed(JNode("number", SubSeq(str, i, SkipDigits(str, i) - 1), <<>>),
                SkipDigits(str, i))

ParseLiteral(str, i, literal) ==
    IF i + Len(literal) - 1 <= Len(str) /\ SubSeq(str, i, i + Len(literal) - 1) = literal
    THEN Parsed(JNode(literal, "", <<>>), i + Len(literal))
    ELSE ParseFailed

RECURSIVE ParseValue(_, _)
RECURSIVE ParseMembers(_, _, _)
RECURSIVE ParseElements(_, _, _)

\* the value that starts at position i
ParseValue(str, i) ==
    LET char == At(str, i)
    IN  IF char = "{"
        THEN IF At(str, SkipSpace(str, i + 1)) = "}"
             THEN Parsed(JNode("object", "", <<>>), SkipSpace(str, i + 1) + 1)
             ELSE ParseMembers(str, SkipSpace(str, i + 1), <<>>)
        ELSE IF char = "["
        THEN IF At(str, SkipSpace(str, i + 1)) = "]"
             THEN Parsed(JNode("array", "", <<>>), SkipSpace(str, i + 1) + 1)
             ELSE ParseElements(str, SkipSpace(str, i + 1), <<>>)
        ELSE IF char = "\"" THEN ParseString(str, i + 1, "")
        ELSE IF char \in Digits THEN ParseNumber(str, i)
        ELSE IF char = "t" THEN ParseLiteral(str, i, "true")
        ELSE IF char = "f" THEN ParseLiteral(str, i, "false")
        ELSE IF char = "n" THEN ParseLiteral(str, i, "null")
        ELSE ParseFailed

\* the members of an object from position i on, after the members in items
ParseMembers(str, i, items) ==
    IF At(str, i) # "\"" THEN ParseFailed
    ELSE WithValue(ParseString(str, i + 1, ""), LAMBDA key :
         IF ~key.ok \/ At(str, SkipSpace(str, key.next)) # ":" THEN ParseFailed
         ELSE WithValue(ParseValue(str, SkipSpace(str, SkipSpace(str, key.next) + 1)),
              LAMBDA member :
              IF ~member.ok THEN ParseFailed
              ELSE WithValue(SkipSpace(str, member.next), LAMBDA j :
                   WithValue(Append(items, [key |-> key.value.text,
                                            value |-> member.value]),
                   LAMBDA all :
                   IF At(str, j) = "," THEN ParseMembers(str, SkipSpace(str, j + 1), all)
                   ELSE IF At(str, j) = "}" THEN Parsed(JNode("object", "", all), j + 1)
                   ELSE ParseFailed))))

\* the elements of an array from position i on, after the elements in items
ParseElements(str, i, items) ==
    WithValue(ParseValue(str, i), LAMBDA element :
    IF ~element.ok THEN ParseFailed
    ELSE WithValue(SkipSpace(str, element.next), LAMBDA j :
         WithValue(Append(items, [key |-> "", value |-> element.value]), LAMBDA all :
         IF At(str, j) = "," THEN ParseElements(str, SkipSpace(str, j + 1), all)
         ELSE IF At(str, j) = "]" THEN Parsed(JNode("array", "", all), j + 1)
         ELSE ParseFailed)))

\* JSON.parse(str): threw tells whether it throws a SyntaxError
JSONparse(str) ==
    WithValue(ParseValue(str, SkipSpace(str, 1)), LAMBDA parsed :
    IF parsed.ok /\ SkipSpace(str, parsed.next) = Len(str) + 1
    THEN [threw |-> FALSE, value |-> parsed.value]
    ELSE [threw |-> TRUE, value |-> JNull])

\* `key in value' for an object or an array
HasKey(value, key) ==
    value.type = "object" /\ \E i \in 1..Len(value.items) : value.items[i].key = key

\* value[key] of an object that has the key
Member(value, key) ==
    value.items[CHOOSE i \in 1..Len(value.items) :
                    /\ value.items[i].key = key
                    /\ \A j \in (i + 1)..Len(value.items) : value.items[j].key # key].value

\* whether a value counts as true in a condition
Truthy(value) ==
    CASE value.type \in {"null", "false"} -> FALSE
      [] value.type = "number" -> value.text # "0"
      [] value.type = "string" -> value.text # ""
      [] OTHER -> TRUE

\* whether value[key] counts as true: not for a key the value does not have
TruthyMember(value, key) == HasKey(value, key) /\ Truthy(Member(value, key))

----------------------------------------------------------------------------
(* OptimizedGeminiService: validation and repair of a response, lines
   1612-1825. A backquote is written as a tab (see Alphabet). *)

Fence == "\t\t\t"

\* str.slice(n): without the first n characters
DropFirst(str, n) == SubSeq(str, n + 1, Len(str))

\* str.slice(0, -n): without the last n characters
DropLast(str, n) == SubSeq(str, 1, Len(str) - n)

\* the fields a question must have, lines 1684 and 1723
RequiredQuestionFields == {"id", "text", "category", "keywords", "description"}

\* the fields a judgment must have, line 1693
requiredFields == {"hasAnswer", "confidence"}

Threw == [threw |-> TRUE, value |-> JNull]

Returned(value) == [threw |-> FALSE, value |-> value]

\* validateParsedResponse(parsed, expectQuestionsArray), lines 1676-1701:
\* throws, or returns parsed, where the questions that lack a field have
\* been removed from parsed.questions. Reading a field of null throws.
validateParsedResponse(parsed, expectQuestionsArray) ==
    IF expectQuestionsArray
    THEN IF \/ parsed.type = "null"
            \/ ~TruthyMember(parsed, "questions")
            \/ Member(parsed, "questions").type # "array"
         THEN Threw
         ELSE IF \E i \in 1..Len(Member(parsed, "questions").items) :
                    Member(parsed, "questions").items[i].value.type = "null"
         THEN Threw
         ELSE Returned([parsed EXCEPT !.items =
                  [i \in 1..Len(parsed.items) |->
                      IF parsed.items[i].key = "questions"
                      THEN [key |-> "questions",
                            value |-> [Member(parsed, "questions") EXCEPT !.items =
                                SelectSeq(Member(parsed, "questions").items,
                                    LAMBDA q : \A field \in RequiredQuestionFields :
                                                   TruthyMember(q.value, field))]]
                      ELSE parsed.items[i]]])
    ELSE IF parsed.type \in {"object", "array"}
            /\ \A field \in requiredFields : HasKey(parsed, field)
         THEN Returned(parsed)
         ELSE Threw

\* The pieces of questionPattern (line 1713) between its lazy [\s\S]*? parts:
\* the position after the piece that starts at position p, 0 when the piece
\* does not match there.
PieceEnd(str, piece, p) ==
    LET q == SkipSpace(str, p + Len(piece) + 3)
    IN  IF ~(p + Len(piece) + 2 <= Len(str)
             /\ SubSeq(str, p, p + Len(piece) + 2) = "\"" \o piece \o "\":")
        THEN 0
        ELSE IF piece = "id"
        THEN IF At(str, q) \in Digits THEN SkipDigits(str, q) ELSE 0
        ELSE IF piece = "keywords"
        THEN IF At(str, q) = "[" /\ indexOf(str, "]", q + 1) # 0
             THEN indexOf(str, "]", q + 1) + 1 ELSE 0
        ELSE IF piece = "requiresEvidence"
        THEN IF startsWith(DropFirst(str, q - 1), "true") THEN q + 4
             ELSE IF startsWith(DropFirst(str, q - 1), "false") THEN q + 5
             ELSE 0
        ELSE IF At(str, q) = "\"" /\ indexOf(str, "\"", q + 1) # 0
             THEN indexOf(str, "\"", q + 1) + 1 ELSE 0

\* the pieces in the order of the pattern
PatternPieces ==
    <<"id", "text", "category", "keywords", "description", "requiresEvidence">>

\* A lazy [\s\S]*? followed by a piece takes the first place from `from' on
\* where the piece matches: the position after that piece, 0 without one.
RECURSIVE FirstPieceEnd(_, _, _)
FirstPieceEnd(str, piece, from) ==
    WithValue(indexOf(str, "\"" \o piece \o "\":", from), LAMBDA p :
    IF p = 0 THEN 0
    ELSE IF PieceEnd(str, piece, p) # 0 THEN PieceEnd(str, piece, p)
    ELSE FirstPieceEnd(str, piece, p + 1))

\* the position after the pieces k.. of the pattern, matched from `from' on
RECURSIVE PiecesEnd(_, _, _)
PiecesEnd(str, k, from) ==
    IF k > Len(PatternPieces) THEN from
    ELSE WithValue(FirstPieceEnd(str, PatternPieces[k], from), LAMBDA end :
         IF end = 0 THEN 0 ELSE PiecesEnd(str, k + 1, end))

\* The loop of questionPattern.exec, lines 1718-1729: the matches from
\* lastIndex on. A match starts at the first opening brace, runs over the
\* first pieces after it and ends at the first closing brace after them.
RECURSIVE questionPatternMatches(_, _)
questionPatternMatches(str, lastIndex) ==
    WithValue(indexOf(str, "{", lastIndex), LAMBDA start :
    IF start = 0 THEN <<>>
    ELSE WithValue(PiecesEnd(str, 1, start + 1), LAMBDA end :
         IF end = 0 \/ indexOf(str, "}", end) = 0 THEN <<>>
         ELSE <<SubSeq(str, start, indexOf(str, "}", end))>>
              \o questionPatternMatches(str, indexOf(str, "}", end) + 1)))

\* one round of the loop of tryAlternativeRepair, lines 1764-1808
ScanStep(scan, char) ==
    IF scan.escapeNext
    THEN [scan EXCEPT !.escapeNext = FALSE, !.currentQuestion = @ \o char]
    ELSE IF char = "\\"
    THEN [scan EXCEPT !.escapeNext = TRUE, !.currentQuestion = @ \o char]
    ELSE LET inString == IF char = "\"" THEN ~scan.inString ELSE scan.inString
             closed == scan.currentQuestion \o char
         IN  IF inString
             THEN [scan EXCEPT !.inString = inString, !.currentQuestion = @ \o char]
             ELSE IF char = "{"
             THEN [scan EXCEPT !.inString = inString,
                               !.currentQuestion =
                                   IF scan.braceCount = 0 THEN char ELSE @ \o char,
                               !.braceCount = @ + 1]
             ELSE IF char = "}"
             THEN IF scan.braceCount - 1 = 0
                  THEN [scan EXCEPT !.inString = inString,
                                    !.braceCount = 0,
                                    !.currentQuestion = "",
                                    !.questions =
                                        IF /\ ~JSONparse(closed).threw
                                           /\ TruthyMember(JSONparse(closed).value, "id")
                                           /\ TruthyMember(JSONparse(closed).value, "text")
                                        THEN Append(@, closed) ELSE @]
                  ELSE [scan EXCEPT !.inString = inString,
                                    !.braceCount = @ - 1,
                                    !.currentQuestion = closed]
             ELSE IF scan.braceCount > 0
             THEN [scan EXCEPT !.inString = inString, !.currentQuestion = closed]
             ELSE [scan EXCEPT !.inString = inString]

\* the loop of tryAlternativeRepair on the positions i..j of
\* questionsSection: the rounds for i..j are the rounds for the first half
\* of them followed by the rounds for the second half
RECURSIVE Scanned(_, _, _, _)
Scanned(questionsSection, i, j, scan) ==
    IF i > j THEN scan
    ELSE IF i = j THEN ScanStep(scan, At(questionsSection, i))
    ELSE WithValue(Scanned(questionsSection, i, (i + j) \div 2, scan), LAMBDA half :
         Scanned(questionsSection, (i + j) \div 2 + 1, j, half))

NotRepaired == [found |-> FALSE, json |-> ""]

Repaired(objects) ==
    [found |-> TRUE, json |-> "{\"questions\":[" \o join(objects, ",") \o "]}"]

\* tryAlternativeRepair(jsonString), lines 1748-1825: found is FALSE when it
\* returns null
tryAlternativeRepair(jsonString) ==
    WithValue(indexOf(jsonString, "\"questions\": [", 1), LAMBDA questionsStart :
    IF questionsStart = 0 THEN NotRepaired
    ELSE WithValue(Scanned(DropFirst(jsonString, questionsStart + 12), 1,
                           Len(jsonString) - questionsStart - 12,
                           [questions |-> <<>>, braceCount |-> 0,
                            currentQuestion |-> "", inString |-> FALSE,
                            escapeNext |-> FALSE]),
         LAMBDA scan :
         IF Len(scan.questions) > 0 THEN Repaired(scan.questions) ELSE NotRepaired))

\* the fences findLastCompleteQuestion removes, lines 1705-1711
WithoutFences(jsonString) ==
    LET cleanJson == IF startsWith(jsonString, Fence \o "json")
                     THEN DropFirst(jsonString, 7) ELSE jsonString
    IN  IF startsWith(cleanJson, Fence) THEN DropFirst(cleanJson, 3) ELSE cleanJson

\* matches of findLastCompleteQuestion, lines 1715-1729: the matches of the
\* pattern that parse and have the fields of a question
CompleteMatches(cleanJson) ==
    SelectSeq(questionPatternMatches(cleanJson, 1),
              LAMBDA questionObj :
                  /\ ~JSONparse(questionObj).threw
                  /\ \A field \in RequiredQuestionFields :
                         TruthyMember(JSONparse(questionObj).value, field))

\* findLastCompleteQuestion(jsonString), lines 1703-1746; scanned tells
\* whether it went on to tryAlternativeRepair
findLastCompleteQuestion(jsonString) ==
    WithValue(CompleteMatches(WithoutFences(jsonString)), LAMBDA matches :
    IF Len(matches) = 0
    THEN [scanned |-> TRUE] @@ tryAlternativeRepair(WithoutFences(jsonString))
    ELSE [scanned |-> FALSE] @@ Repaired(matches))

\* the fences parseJSONResponse removes from the trimmed response, lines
\* 1616-1626
WithoutFence(response) ==
    LET opened == IF startsWith(response, Fence \o "json") THEN DropFirst(response, 7)
                  ELSE IF startsWith(response, Fence) THEN DropFirst(response, 3)
                  ELSE response
    IN  IF startsWith(response, Fence) /\ endsWith(opened, Fence)
        THEN DropLast(opened, 3) ELSE opened

\* openBraces of lines 1649-1653: opening less closing braces, counted
\* wherever they stand
OpenBraces(str) ==
    Cardinality({i \in 1..Len(str) : At(str, i) = "{"})
    - Cardinality({i \in 1..Len(str) : At(str, i) = "}"})

\* '}'.repeat(count) for a count that is not negative
RECURSIVE ClosingBraces(_)
ClosingBraces(count) == IF count = 0 THEN "" ELSE "}" \o ClosingBraces(count - 1)

\* JSON.parse followed by validateParsedResponse, as in lines 1631-1632,
\* 1641-1642 and 1658-1659
ParsedAndValidated(text, expectQuestionsArray) ==
    WithValue(JSONparse(text), LAMBDA parsed :
    IF parsed.threw THEN Threw
    ELSE validateParsedResponse(parsed.value, expectQuestionsArray))

\* what parseJSONResponse did: tried lists the strategies it went through,
\* appended is the number of braces it appended
Outcome(result, tried, appended) ==
    [threw |-> result.threw, value |-> result.value, tried |-> tried,
     appended |-> appended]

\* parseJSONResponse(response, expectQuestionsArray), lines 1612-1674: it
\* returns a validated value or throws one ApiError
parseJSONResponse(response, expectQuestionsArray) ==
    WithValue(trim(WithoutFence(trim(response))), LAMBDA cleanedResponse :
    WithValue(ParsedAndValidated(cleanedResponse, expectQuestionsArray), LAMBDA direct :
    IF ~direct.threw THEN Outcome(direct, <<"direct">>, 0)
    ELSE IF expectQuestionsArray
    THEN WithValue(findLastCompleteQuestion(cleanedResponse), LAMBDA repairedJson :
         Outcome(IF repairedJson.found
                 THEN ParsedAndValidated(repairedJson.json, expectQuestionsArray)
                 ELSE Threw,
                 IF repairedJson.scanned THEN <<"direct", "pattern", "scanning">>
                 ELSE <<"direct", "pattern">>,
                 0))
    ELSE IF ~endsWith(cleanedResponse, "}")
    THEN WithValue(OpenBraces(cleanedResponse), LAMBDA openBraces :
         IF openBraces < 0 THEN Outcome(Threw, <<"direct", "depth">>, 0)
         ELSE Outcome(ParsedAndValidated(cleanedResponse \o ClosingBraces(openBraces),
                                         expectQuestionsArray),
                      <<"direct", "depth">>, openBraces))
    ELSE Outcome(Threw, <<"direct">>, 0)))

----------------------------------------------------------------------------
(* OptimizedGeminiService.findKeywordPositions, lines 1490-1498, step by step *)

FrameScan == UNCHANGED <<varsG, varsD, varsO, varsC, varsF, metadataCache, existCall,
                         extractCall>>

\* the texts and keywords of the letters a and b, the empty ones included
RECURSIVE LettersOfLength(_)
LettersOfLength(n) ==
    IF n = 0 THEN {""}
    ELSE {text \o char : text \in LettersOfLength(n - 1), char \in {"a", "b"}}

ScannedTexts == UNION {LettersOfLength(n) : n \in 0..MaxScannedLen}

ScannedKeywords == UNION {LettersOfLength(n) : n \in 0..2}

\* a call of findKeywordPositions(text, keyword) that has not started; index
\* is the local variable of line 1492, counted from 0, -1 for no occurrence
NewScanCall(text, keyword) ==
    [text |-> text, keyword |-> keyword, at |-> "call", index |-> -1,
     positions |-> <<>>]

Scan == scanCall[1]

\* lines 1491-1492: positions = [], index = text.indexOf(keyword)
FindKeywordPositions ==
    /\ scanCall # Null
    /\ Scan.at = "call"
    /\ scanCall' = Some([Scan EXCEPT
                            !.at = "loop",
                            !.index = indexOf(Scan.text, Scan.keyword, 1) - 1])
    /\ FrameScan

\* one pass of the loop, lines 1493-1496: the index is pushed and the keyword
\* is looked for from the next index on
KeywordFound ==
    /\ scanCall # Null
    /\ Scan.at = "loop"
    /\ Scan.index # -1
    /\ Len(Scan.positions) < MaxPositions
    /\ scanCall' = Some([Scan EXCEPT
                            !.positions = Append(@, Scan.index),
                            !.index = indexOf(Scan.text, Scan.keyword,
                                              Scan.index + 2) - 1])
    /\ FrameScan

\* the loop ends, lines 1493 and 1497
FindKeywordPositionsReturns ==
    /\ scanCall # Null
    /\ Scan.at = "loop"
    /\ Scan.index = -1
    /\ scanCall' = Some([Scan EXCEPT !.at = "returned"])
    /\ FrameScan

----------------------------------------------------------------------------
(* OptimizedGeminiService.smartTruncatePolicyText, lines 1455-1488 *)

maxLength == 18000

\* what findKeywordPositions(text, keyword) returns when it returns: the
\* indexes (from 0) of the occurrences of the keyword, ascending.  It is used
\* here for keywords that are not empty.
findKeywordPositions(text, keyword) ==
    LET places == {p \in 1..(Len(text) - Len(keyword) + 1) :
                      SubSeq(text, p, p + Len(keyword) - 1) = keyword}
        RECURSIVE Ascending(_, _)
        Ascending(from, left) ==
            IF left = {} THEN <<>>
            ELSE LET p == CHOOSE q \in left : \A r \in left : q <= r
                 IN  <<p - 1>> \o Ascending(p + 1, left \ {p})
    IN  Ascending(1, places)

\* keywordPositions after the forEach of lines 1464-1467
RECURSIVE keywordPositions(_, _)
keywordPositions(text, keywords) ==
    IF keywords = <<>> THEN <<>>
    ELSE findKeywordPositions(text, toLowerCase(Head(keywords)))
             \o keywordPositions(text, Tail(keywords))

CompareNumbers(a, b) == a - b

\* relevantSections of lines 1472-1478 for the sorted positions
relevantSections(text, positions) ==
    [i \in 1..Len(positions) |->
        SubSeq(text, Max(0, positions[i] - 500) + 1, Min(Len(text), positions[i] + 1500))]

smartTruncatePolicyText(text, keywords) ==
    IF Len(text) <= maxLength THEN text
    ELSE WithValue(StableSort(keywordPositions(toLowerCase(text), keywords),
                              CompareNumbers), LAMBDA positions :
         WithValue(join(relevantSections(text, positions), "\n...\n"),
                   LAMBDA combinedText :
         IF Len(positions) > 0 /\ Len(combinedText) <= maxLength
         THEN combinedText
         ELSE SubSeq(text, 1, maxLength) \o "...[truncated]"))

----------------------------------------------------------------------------
(* OptimizedGeminiService.splitTextIntoChunks, lines 1827-1846 *)

\* str.lastIndexOf(pattern, from - 1) + 1: the last position up to `from'
\* where pattern occurs, 0 when there is none
lastIndexOf(str, pattern, from) ==
    LET places == {p \in 1..Min(from, Len(str) - Len(pattern) + 1) :
                      SubSeq(str, p, p + Len(pattern) - 1) = pattern}
    IN  IF places = {} THEN 0
        ELSE CHOOSE p \in places : \A q \in places : q <= p

\* a split that takes the last question mark of the chunk wherever it lies
chunkEndAtAnyQuestion(text, chunkSize, start) ==
    LET end == start + chunkSize
        questionBreak == lastIndexOf(text, "?", end + 1) - 1
    IN  IF end < Len(text) /\ questionBreak > start
        THEN questionBreak + 1
        ELSE end

\* The value of `end' when the chunk that starts at index `start' (indexes
\* from 0, as in the code) is pushed, lines 1833-1840.  lastIndexOf('?', end)
\* looks at the character at index end as well.  questionBreak >
\* start + chunkSize * 0.7 is compared in tenths; the product in floating
\* point is the same side of every integer for the chunk sizes used here.
chunkEnd(text, chunkSize, start) ==
    LET end == start + chunkSize
        questionBreak == lastIndexOf(text, "?", end + 1) - 1
    IN  IF end < Len(text) /\ 10 * questionBreak > 10 * start + 7 * chunkSize
        THEN questionBreak + 1
        ELSE end

\* the chunks pushed by the loop of lines 1831-1843 from index `start' on
RECURSIVE chunksFrom(_, _, _)
chunksFrom(text, chunkSize, start) ==
    IF start < Len(text)
    THEN LET end == chunkEnd(text, chunkSize, start)
         IN  <<SubSeq(text, start + 1, Min(end, Len(text)))>>
                 \o chunksFrom(text, chunkSize, end)
    ELSE <<>>

splitTextIntoChunks(text, chunkSize) == chunksFrom(text, chunkSize, 0)

----------------------------------------------------------------------------
(* The functions without state, each called once with arguments drawn from a
   small set: createBatches, calculateRelevanceScore and fuzzyMatch *)

FrameP == UNCHANGED <<varsG, varsD, varsO, varsC, jcall, rankCall, varsX>>

\* the arrays 1..n and the batch sizes createBatches is called with
BatchedArrays == {[i \in 1..n |-> i] : n \in 0..MaxBatchedItems}
BatchSizes == 1..MaxBatchSize

\* the keywords fuzzyMatch is called with: two families of words that differ
\* from each other in a few places
FuzzyWords ==
    <<{"", "a", "abcd", "abce", "abxy", "abcdef", "abcdefg", "abcdefghij",
       "abcdefgxyz", "abcdefwxyz"},
      {"privacy", "Privacy", "secur", "security"}>>

\* the questions and index entries calculateRelevanceScore is called with
ScoredQuestions ==
    {[text |-> text, category |-> category, keywords |-> keywords, description |-> ""] :
        text \in {"", "Is it safe"},
        category \in {"Privacy", "privacy", "HR"},
        keywords \in {<<"privacy", "security">>, <<"security", "Privacy">>,
                      <<"privacy">>, <<>>}}

ScoredPolicies ==
    {[pdf_name |-> "p1.pdf", subfolder |-> "IT", category |-> "Privacy",
      keywords |-> keywords, short_description |-> description] :
        keywords \in {<<"privacy", "secur">>, <<"secur">>},
        description \in {"", "safe privacy rules"}}

\* the entries executeRequest pushes (lines 1541-1546 and 1552-1558): a call
\* that returned at once, after two retries or after three, and a call that
\* failed after three retries
HistoryEntries ==
    {[success |-> TRUE, duration |-> 500], [success |-> TRUE, duration |-> 4500],
     [success |-> TRUE, duration |-> 9000], [success |-> FALSE, duration |-> 9000]}

\* requestHistory when adjustAdaptiveDelay is called: the entries kept by the
\* call before and the entry just pushed, here n1 times one entry and then
\* n2 times another
PushedHistories ==
    {[i \in 1..(n[1] + n[2]) |-> IF i <= n[1] THEN e[1] ELSE e[2]] :
        e \in HistoryEntries \X HistoryEntries,
        n \in {m \in (0..MaxHistory) \X (1..MaxHistory) : m[1] + m[2] <= MaxHistory}}

\* adaptiveDelay when adjustAdaptiveDelay is called: 1000 ms after a number
\* of adjustments
AdaptiveDelays ==
    {5000000, 5314410, 10000000, 27000000, 30000000, 33750000, 50000000}

\* a question object as the extraction prompt asks for it (lines 1355-1368)
QuestionObject(id) ==
    "{\"id\":" \o ToString(id) \o ",\"text\":\"Does the P&P state it\","
    \o "\"category\":\"HR\",\"keywords\":[\"APL\"],\"description\":\"d\","
    \o "\"requiresEvidence\":true}"

\* the places where the last object of a response is cut off: after its
\* opening brace, inside its id, inside its text, before its closing brace
CutPoints == {1, 5, 20, Len(QuestionObject(1)) - 1}

\* an extraction response with m complete question objects, cut off after
\* the first cut characters of the next one
TruncatedExtraction(m, cut) ==
    "{\"questions\": ["
    \o join([i \in 1..(m + 1) |->
                IF i <= m THEN QuestionObject(i)
                ELSE SubSeq(QuestionObject(i), 1, cut)], ", ")

\* the same without the space after the colon
TruncatedCompact(m, cut) ==
    "{\"questions\":[" \o DropFirst(TruncatedExtraction(m, cut), 14)

\* the whole response with m question objects
CompleteExtraction(m) ==
    "{\"questions\": [" \o join([i \in 1..m |-> QuestionObject(i)], ", ") \o "]}"

\* a response between fences
Fenced(text) == Fence \o "json " \o text \o " " \o Fence

\* the responses to an extraction prompt parseJSONResponse is called with
ExtractionResponses ==
    {TruncatedExtraction(m, cut) : m \in 0..MaxQuestionsInResponse, cut \in CutPoints}
    \cup {CompleteExtraction(m) : m \in 0..MaxQuestionsInResponse}
    \cup {TruncatedCompact(1, 20), Fenced(CompleteExtraction(1)),
          Fenced(TruncatedExtraction(2, 20)), " " \o CompleteExtraction(1) \o " ",
          "{\"questions\": [{\"id\":0,\"text\":\"a\"}, " \o QuestionObject(2) \o "]}",
          "{\"questions\": [null]}", "{\"items\": []}", "No questions found", ""}

\* well-formed judgments (lines 1410-1417), flat and with objects inside
Judgments ==
    {"{\"hasAnswer\":true,\"confidence\":\"high\",\"answer\":\"yes\"}",
     "{\"hasAnswer\":true,\"confidence\":\"high\",\"evidence\":{\"page\":2}}",
     "{\"hasAnswer\":false,\"confidence\":\"low\",\"evidence\":{\"ref\":{\"page\":2}}}",
     "{\"hasAnswer\":true,\"confidence\":\"low\",\"evidence\":{\"quote\":\"see {a\"}}",
     "{\"hasAnswer\":true,\"confidence\":\"low\",\"evidence\":[{\"ref\":{}}]}"}

\* the judgments that end with k closing braces, and what is left of such a
\* judgment when they are missing
EndsWithBraces(k) == {judgment \in Judgments : endsWith(judgment, ClosingBraces(k))}

MissingBraces(judgment, k) == DropLast(judgment, k)

\* the responses to a judgment prompt parseJSONResponse is called with
JudgmentResponses ==
    UNION {{MissingBraces(judgment, k) : judgment \in EndsWithBraces(k)} :
               k \in 0..MaxMissingBraces}
    \cup {Fenced(MissingBraces(judgment, 1)) : judgment \in Judgments}
    \cup {"{\"confidence\":\"high\"}", "{\"hasAnswer\":true,\"confidence\":}",
          "[1, 2]", "null", "}", "I cannot answer", ""}

\* the entries of a questions array: a question with every field, one without
\* category, keywords and description, one whose text is empty, and null
EntryKinds == {"complete", "lacking", "empty", "null"}

QuestionEntry(kind, id) ==
    CASE kind = "complete" -> QuestionObject(id)
      [] kind = "lacking" -> "{\"id\":" \o ToString(id) \o ",\"text\":\"a\"}"
      [] kind = "empty" ->
            "{\"id\":" \o ToString(id) \o ",\"text\":\"\",\"category\":\"HR\","
            \o "\"keywords\":[],\"description\":\"d\"}"
      [] OTHER -> "null"

\* the parsed extraction responses validateParsedResponse is called with
ParsedExtractions ==
    {JSONparse("{\"questions\": ["
               \o join([i \in 1..Len(kinds) |-> QuestionEntry(kinds[i], i)], ", ")
               \o "]}").value :
        kinds \in UNION {[1..m -> EntryKinds] : m \in 0..MaxQuestionsInResponse}}
    \cup {JSONparse(response).value :
             response \in {"{\"items\": []}", "{\"questions\": 3}", "[]"}}

\* the parsed judgments validateParsedResponse is called with
ParsedJudgments ==
    {JSONparse(response).value :
        response \in Judgments
                     \cup {"{\"confidence\":\"high\"}", "{\"hasAnswer\":true}", "{}",
                           "{\"hasAnswer\":null,\"confidence\":null}", "[1, 2]"}}

\* The policy texts smartTruncatePolicyText is called with: of exactly
\* maxLength characters; without a keyword; with one occurrence of "Payment";
\* with two occurrences of "audit" far apart; with ten of them, whose
\* windows together exceed maxLength.
TruncatedPolicies ==
    {repeat("Payment terms. ", 1200),
     repeat(".", maxLength + 1),
     repeat(".", 600) \o "Payment" \o repeat(".", 18000),
     repeat(".", 100) \o "audit" \o repeat(".", 5000) \o "Audit" \o repeat(".", 14000),
     repeat("audit" \o repeat(".", 1895), 10)}

\* the keywords of the question
TruncationKeywords ==
    {<<>>, <<"payment">>, <<"pay", "payment">>, <<"audit">>, <<"Audit", "audit">>}

\* the texts of letters and question marks and the chunk sizes
\* splitTextIntoChunks is called with
RECURSIVE TextsOfLength(_)
TextsOfLength(n) ==
    IF n = 0 THEN {""}
    ELSE {text \o char : text \in TextsOfLength(n - 1), char \in {"a", "?"}}

ChunkedTexts == UNION {TextsOfLength(n) : n \in 0..MaxTextLen}

ChunkSizes == 1..MaxChunkSize

\* the arguments of the calls that are made, by function
PureCalls ==
    [createBatches |->
        {<<array, batchSize>> : array \in BatchedArrays, batchSize \in BatchSizes},
     fuzzyMatch |->
        {<<str1, str2>> : str1 \in FuzzyWords[1], str2 \in FuzzyWords[1]}
        \cup {<<str1, str2>> : str1 \in FuzzyWords[2], str2 \in FuzzyWords[2]},
     calculateRelevanceScore |->
        {<<question, policy>> : question \in ScoredQuestions, policy \in ScoredPolicies},
     adjustAdaptiveDelay |->
        {<<history, delay>> : history \in PushedHistories, delay \in AdaptiveDelays},
     parseJSONResponse |->
        {<<response, TRUE>> : response \in ExtractionResponses}
        \cup {<<response, FALSE>> : response \in JudgmentResponses},
     findLastCompleteQuestion |->
        {<<jsonString>> : jsonString \in ExtractionResponses},
     validateParsedResponse |->
        {<<parsed, TRUE>> : parsed \in ParsedExtractions}
        \cup {<<parsed, FALSE>> : parsed \in ParsedJudgments},
     smartTruncatePolicyText |->
        {<<text, keywords>> : text \in TruncatedPolicies, keywords \in TruncationKeywords},
     splitTextIntoChunks |->
        {<<text, chunkSize>> : text \in ChunkedTexts, chunkSize \in ChunkSizes}]

\* the call that is about to be made
Called == pureCall[1]

\* createBatches(array, batchSize) returns
CreateBatchesReturns ==
    /\ pureCall # Null
    /\ Called.fn = "createBatches"
    /\ ~Called.returned
    /\ pureCall' = Some([Called EXCEPT
                            !.returned = TRUE,
                            !.result = createBatches(Called.args[1], Called.args[2])])
    /\ FrameP

\* fuzzyMatch(str1, str2) returns
FuzzyMatchReturns ==
    /\ pureCall # Null
    /\ Called.fn = "fuzzyMatch"
    /\ ~Called.returned
    /\ pureCall' = Some([Called EXCEPT
                            !.returned = TRUE,
                            !.result = fuzzyMatch(Called.args[1], Called.args[2])])
    /\ FrameP

\* calculateRelevanceScore(normalizedQuestion, normalizedPolicy) returns, as
\* findRelevantPolicies calls it (lines 1034-1040)
CalculateRelevanceScoreReturns ==
    /\ pureCall # Null
    /\ Called.fn = "calculateRelevanceScore"
    /\ ~Called.returned
    /\ pureCall' = Some([Called EXCEPT
                            !.returned = TRUE,
                            !.result = calculateRelevanceScore(
                                           normalizeQuestion(Called.args[1]),
                                           normalizePolicy(Called.args[2]))])
    /\ FrameP

\* adjustAdaptiveDelay() returns, lines 1569-1586
AdjustAdaptiveDelayReturns ==
    /\ pureCall # Null
    /\ Called.fn = "adjustAdaptiveDelay"
    /\ ~Called.returned
    /\ pureCall' = Some([Called EXCEPT
                            !.returned = TRUE,
                            !.result = adjustAdaptiveDelay(Called.args[1], Called.args[2])])
    /\ FrameP

\* parseJSONResponse(response, expectQuestionsArray) returns or throws,
\* lines 1612-1674
ParseJSONResponseReturns ==
    /\ pureCall # Null
    /\ Called.fn = "parseJSONResponse"
    /\ ~Called.returned
    /\ pureCall' = Some([Called EXCEPT
                            !.returned = TRUE,
                            !.result = parseJSONResponse(Called.args[1], Called.args[2])])
    /\ FrameP

\* findLastCompleteQuestion(jsonString) returns, lines 1703-1746
FindLastCompleteQuestionReturns ==
    /\ pureCall # Null
    /\ Called.fn = "findLastCompleteQuestion"
    /\ ~Called.returned
    /\ pureCall' = Some([Called EXCEPT
                            !.returned = TRUE,
                            !.result = findLastCompleteQuestion(Called.args[1])])
    /\ FrameP

\* validateParsedResponse(parsed, expectQuestionsArray) returns or throws,
\* lines 1676-1701
ValidateParsedResponseReturns ==
    /\ pureCall # Null
    /\ Called.fn = "validateParsedResponse"
    /\ ~Called.returned
    /\ pureCall' = Some([Called EXCEPT
                            !.returned = TRUE,
                            !.result = validateParsedResponse(Called.args[1],
                                                              Called.args[2])])
    /\ FrameP

\* smartTruncatePolicyText(text, keywords) returns, lines 1455-1488
SmartTruncatePolicyTextReturns ==
    /\ pureCall # Null
    /\ Called.fn = "smartTruncatePolicyText"
    /\ ~Called.returned
    /\ pureCall' = Some([Called EXCEPT
                            !.returned = TRUE,
                            !.result = smartTruncatePolicyText(Called.args[1],
                                                               Called.args[2])])
    /\ FrameP

\* splitTextIntoChunks(text, chunkSize) returns, lines 1827-1846
SplitTextIntoChunksReturns ==
    /\ pureCall # Null
    /\ Called.fn = "splitTextIntoChunks"
    /\ ~Called.returned
    /\ pureCall' = Some([Called EXCEPT
                            !.returned = TRUE,
                            !.result = splitTextIntoChunks(Called.args[1],
                                                           Called.args[2])])
    /\ FrameP

----------------------------------------------------------------------------
(* OptimizedPolicyService.findRelevantPolicies called on its own *)

FrameR == UNCHANGED <<varsG, varsD, varsC, policyFileIdCache, questions, cache,
                      processingStats, evidenceByQuestion, runState, currentBatch,
                      batchPauses, task, jcall, pureCall, varsX>>

\* the questions and the values of maxResults findRelevantPolicies is called
\* with
RankedQuestions == {1, 3}
MaxResultsValues == {1, 2, MaxRelevantPolicies}
RankedCalls == RankedQuestions \X MaxResultsValues

\* the signature of every question, lines 1168-1177
Signatures == [i \in RankedQuestions |-> createQuestionSignature(QuestionInput(i))]

SignatureOf(i) == Signatures[i]

\* calls: the calls made; question, maxResults: the arguments of the last
\* call; threw, cached, policies: whether it threw, whether the cache answered
\* it and what it returned; previous: what the call before it with the same
\* arguments returned; returned: the last result of every pair of arguments;
\* timers: the pending setTimeout callbacks of line 1057 of every signature
NoRankCall ==
    [calls |-> 0, question |-> 0, maxResults |-> 0, threw |-> FALSE, cached |-> FALSE,
     policies |-> <<>>, previous |-> Null,
     returned |-> [c \in RankedCalls |-> Null],
     timers |-> [i \in RankedQuestions |-> 0]]

Ranked == rankCall[1]

\* findRelevantPolicies(QuestionInput(i), maxResults), lines 1012-1060
FindRelevantPoliciesCall(i, maxResults) ==
    /\ rankCall # Null
    /\ Ranked.calls < MaxRankCalls
    /\ \E r \in {findRelevantPoliciesTop(QuestionInput(i), maxResults,
                                         relevanceScoringCache)} :
          LET hit == SignatureOf(i) \in DOMAIN relevanceScoringCache
              set == ~r.throws /\ ~hit /\ Len(policyIndex) > 0
          IN  /\ relevanceScoringCache' = r.cache
              /\ rankCall' = Some(
                    [calls |-> Ranked.calls + 1, question |-> i,
                     maxResults |-> maxResults, threw |-> r.throws,
                     cached |-> ~r.throws /\ hit,
                     policies |-> r.policies,
                     previous |-> Ranked.returned[<<i, maxResults>>],
                     returned |-> IF r.throws THEN Ranked.returned
                                  ELSE [Ranked.returned EXCEPT
                                           ![<<i, maxResults>>] = Some(r.policies)],
                     timers |-> [j \in RankedQuestions |->
                                   IF set /\ SignatureOf(j) = SignatureOf(i)
                                   THEN Ranked.timers[j] + 1 ELSE Ranked.timers[j]]])
    /\ UNCHANGED <<isLoaded, policyIndex>>
    /\ FrameR

\* the callback of line 1057 runs, 30 minutes after the ranking was cached:
\* it deletes the signature, whatever ranking is cached under it by now
RankingTimerFires(i) ==
    /\ rankCall # Null
    /\ Ranked.timers[i] > 0
    /\ relevanceScoringCache' =
          [sig \in DOMAIN relevanceScoringCache \ {SignatureOf(i)} |->
              relevanceScoringCache[sig]]
    /\ rankCall' = Some([Ranked EXCEPT
          !.timers = [j \in RankedQuestions |->
                        IF SignatureOf(j) = SignatureOf(i) THEN Ranked.timers[j] - 1
                        ELSE Ranked.timers[j]]])
    /\ UNCHANGED <<isLoaded, policyIndex>>
    /\ FrameR

\* clearCaches, lines 1256-1261: the rankings are forgotten
ClearRankings ==
    /\ rankCall # Null
    /\ DOMAIN relevanceScoringCache # {}
    /\ relevanceScoringCache' = <<>>
    /\ UNCHANGED <<isLoaded, policyIndex, rankCall>>
    /\ FrameR

----------------------------------------------------------------------------
(* batchCheckPolicyExistence (lines 917-946) and batchCheckFilesExist (lines
   660-705) called on their own *)

FrameE == UNCHANGED <<varsG, varsO, varsC, varsF, credentialsOk, downloadQueue,
                      processingDownloads, activeDownloads, downloadCache,
                      evictTimers, dl, downloadTimers, failedDownloads,
                      metadataCache, extractCall, scanCall>>

\* batchSize of batchCheckFilesExist, line 664
existenceBatchSize == 10

\* the lists of policies batchCheckPolicyExistence is called with, by their
\* place in the catalogue: none, one without a file id, three in an order of
\* their own, and twelve, of which eleven have a file id
CheckedPolicies ==
    {<<>>, <<10>>, <<11, 10, 1>>, [j \in 1..MaxCheckedPolicies |-> j]}

\* policyFileIdCache after preloadPolicyMetadata for the policies above
CheckedFileIds ==
    LET found == {j \in 1..MaxCheckedPolicies : PreloadedFileId(j) # ""}
    IN  [key \in {FileIdKey(CatalogueEntry(j)) : j \in found} |->
            PreloadedFileId(CHOOSE j \in found : FileIdKey(CatalogueEntry(j)) = key)]

\* st: new, checking (a batch of drive.files.get calls is awaited), pause
\* (the 200 ms sleep between two batches), done, rejected; policies: the
\* argument; fileIds: the ids to check; batch: the batch of fileIds under
\* way; pending: the positions of fileIds whose call has not settled;
\* outcome: how the check of every position ended (cached, found, error);
\* results: the Map of batchCheckFilesExist; value: the returned booleans;
\* errors: remote errors so far
NewExistCall(policies) ==
    [st |-> "new", policies |-> policies, fileIds |-> <<>>, batch |-> 0,
     pending |-> {}, outcome |-> <<>>, results |-> <<>>, value |-> <<>>,
     errors |-> 0]

Checked == existCall[1]

\* lines 924-931: the file ids of the policies that have one
FileIdsOf(policies) ==
    LET known == SelectSeq(policies,
                           LAMBDA j : FileIdKey(CatalogueEntry(j)) \in DOMAIN policyFileIdCache)
    IN  [i \in 1..Len(known) |-> policyFileIdCache[FileIdKey(CatalogueEntry(known[i]))]]

\* a check that failed counts as a file that exists
ExistsOfOutcomeAlways(outcome) == TRUE

\* the exists field of what a check returns, lines 671-682
ExistsOfOutcome(outcome) == outcome \in {"cached", "found"}

\* lines 667-683 for batch b: a file id in the metadata cache is answered at
\* once, for the others drive.files.get is called
StartExistenceBatch(c, b) ==
    LET batch  == BatchPositions(Len(c.fileIds), existenceBatchSize, b)
        hit(i) == c.fileIds[i] \in metadataCache
    IN  [c EXCEPT !.st = "checking",
                  !.batch = b,
                  !.outcome = [i \in 1..Len(c.fileIds) |->
                                  IF i \in batch /\ hit(i) THEN "cached" ELSE @[i]],
                  !.pending = {i \in batch : ~hit(i)}]

\* lines 939-945: the results mapped back to the policies
ExistenceValue(c, results) ==
    [p \in 1..Len(c.policies) |->
        LET key == FileIdKey(CatalogueEntry(c.policies[p]))
        IN  IF key \in DOMAIN policyFileIdCache
            THEN IF policyFileIdCache[key] \in DOMAIN results
                 THEN results[policyFileIdCache[key]] ELSE FALSE
            ELSE FALSE]

\* await Promise.allSettled(batchPromises), line 685, and what follows it:
\* the results of the batch are set, then the sleep before the next batch or
\* the return
AfterExistenceBatch(c) ==
    IF c.pending # {} THEN c
    ELSE LET batch   == BatchPositions(Len(c.fileIds), existenceBatchSize, c.batch)
             results == [id \in DOMAIN c.results \cup {c.fileIds[i] : i \in batch} |->
                            IF \E i \in batch : c.fileIds[i] = id
                            THEN ExistsOfOutcome(
                                     c.outcome[CHOOSE i \in batch : c.fileIds[i] = id])
                            ELSE c.results[id]]
         IN  IF c.batch < NumBatchesOf(Len(c.fileIds), existenceBatchSize)
             THEN [c EXCEPT !.results = results, !.st = "pause"]
             ELSE [c EXCEPT !.results = results, !.st = "done",
                            !.value = ExistenceValue(c, results)]

\* batchCheckPolicyExistence(policies) up to its first suspension: no file id
\* gives false for every policy (lines 933-935); ensureInitialized may throw
\* (line 661); else the first batch is started
BatchCheckPolicyExistence ==
    /\ existCall # Null
    /\ Checked.st = "new"
    /\ LET ids  == FileIdsOf(Checked.policies)
           c    == [Checked EXCEPT !.fileIds = ids,
                                   !.outcome = [i \in 1..Len(ids) |-> "none"]]
       IN  IF Len(ids) = 0
           THEN /\ existCall' = Some([c EXCEPT
                        !.st = "done",
                        !.value = [p \in 1..Len(c.policies) |-> FALSE]])
                /\ UNCHANGED initialized
           ELSE IF ~initialized /\ ~credentialsOk
           THEN /\ existCall' = Some([c EXCEPT !.st = "rejected"])
                /\ UNCHANGED initialized
           ELSE /\ existCall' = Some(AfterExistenceBatch(StartExistenceBatch(c, 1)))
                /\ initialized' = TRUE
    /\ FrameE

\* drive.files.get returns for position i, lines 675-680
FilesGetReturns(i) ==
    /\ existCall # Null
    /\ Checked.st = "checking"
    /\ i \in Checked.pending
    /\ DriveFileExists(Checked.fileIds[i])
    /\ existCall' = Some(AfterExistenceBatch(
          [Checked EXCEPT !.pending = @ \ {i}, !.outcome[i] = "found"]))
    /\ UNCHANGED initialized
    /\ FrameE

\* drive.files.get throws for position i, lines 681-683: the file is not
\* found, or the remote call fails
FilesGetThrows(i) ==
    /\ existCall # Null
    /\ Checked.st = "checking"
    /\ i \in Checked.pending
    /\ \/ /\ ~DriveFileExists(Checked.fileIds[i])
          /\ existCall' = Some(AfterExistenceBatch(
                [Checked EXCEPT !.pending = @ \ {i}, !.outcome[i] = "error"]))
       \/ /\ DriveFileExists(Checked.fileIds[i])
          /\ Checked.errors < MaxCheckErrors
          /\ existCall' = Some(AfterExistenceBatch(
                [Checked EXCEPT !.pending = @ \ {i}, !.outcome[i] = "error",
                                !.errors = @ + 1]))
    /\ UNCHANGED initialized
    /\ FrameE

\* the 200 ms sleep between two batches ends, line 697
ExistencePauseDone ==
    /\ existCall # Null
    /\ Checked.st = "pause"
    /\ existCall' = Some(AfterExistenceBatch(
          StartExistenceBatch(Checked, Checked.batch + 1)))
    /\ UNCHANGED initialized
    /\ FrameE

----------------------------------------------------------------------------
(* OptimizedGeminiService.extractQuestionsInChunksParallel (lines 1298-1340)
   called on its own. A call of processTextChunk is seen through its promise
   only: it is fulfilled with the questions that parseJSONResponse has
   validated, or it is rejected (lines 1385-1398). *)

FrameChunks == UNCHANGED <<varsG, varsD, varsO, varsC, varsF, metadataCache, existCall,
                           scanCall>>

\* the size of a group of chunks, line 1304
chunkBatchSize == 2

\* the ids the reasoning capability gives to the questions of one chunk
ReturnedIds ==
    {ids \in {<<>>, <<1>>, <<7>>, <<1, 2>>, <<2, 1>>, <<7, 7>>, <<1, 2, 3>>, <<3, 3, 1>>} :
        Len(ids) <= MaxQuestionsPerChunk}

\* the questions processTextChunk returns for a chunk: `returned' keeps the
\* id the reasoning capability gave, index is the place in its answer
ChunkQuestions(chunk, ids) ==
    [i \in 1..Len(ids) |-> [id |-> ids[i], returned |-> ids[i], chunk |-> chunk, index |-> i]]

\* the call before its first step; chunks is chunks.length, the chunks are
\* known by their place in the array
NewExtractCall(chunks) ==
    [st |-> "new", chunks |-> chunks, batch |-> 0,
     status |-> [chunk \in 1..chunks |-> "none"],
     value |-> [chunk \in 1..chunks |-> <<>>],
     settled |-> <<>>,
     allQuestions |-> <<>>, questionIdCounter |-> 1]

Extracted == extractCall[1]

\* chunkBatches, line 1304
chunkBatches(call) == createBatches([chunk \in 1..call.chunks |-> chunk], chunkBatchSize)

\* questions.forEach(q => { q.id = questionIdCounter++; }), lines 1320-1322,
\* with the numbering that restarts in every chunk to compare with
RenumberedPerChunk(returned, questionIdCounter) ==
    [i \in 1..Len(returned) |-> [returned[i] EXCEPT !.id = i]]

Renumbered(returned, questionIdCounter) ==
    [i \in 1..Len(returned) |-> [returned[i] EXCEPT !.id = questionIdCounter + i - 1]]

\* batchResults.forEach of lines 1316-1327 from the result at place k of the
\* batch on: the questions of a fulfilled call are numbered and pushed
RECURSIVE CollectedQuestions(_, _, _)
CollectedQuestions(call, batch, k) ==
    IF k > Len(batch) THEN call
    ELSE IF call.status[batch[k]] = "fulfilled"
    THEN CollectedQuestions(
             [call EXCEPT
                 !.allQuestions =
                     @ \o Renumbered(call.value[batch[k]], call.questionIdCounter),
                 !.questionIdCounter = @ + Len(call.value[batch[k]])],
             batch, k + 1)
    ELSE CollectedQuestions(call, batch, k + 1)

\* the calls of processTextChunk for the chunks of batch b are under way,
\* lines 1307-1313
StartChunkBatch(call, b) ==
    [call EXCEPT
        !.st = "awaiting",
        !.batch = b,
        !.status = [chunk \in 1..call.chunks |->
                       IF \E k \in 1..Len(chunkBatches(call)[b]) :
                              chunkBatches(call)[b][k] = chunk
                       THEN "pending" ELSE @[chunk]]]

\* Promise.allSettled has settled, lines 1315-1333: the results are
\* collected, then the call sleeps before the next batch or returns
AfterChunkBatch(call) ==
    IF \E chunk \in 1..call.chunks : call.status[chunk] = "pending" THEN call
    ELSE [CollectedQuestions(call, chunkBatches(call)[call.batch], 1) EXCEPT
             !.st = IF call.batch < Len(chunkBatches(call)) THEN "sleeping"
                    ELSE "returned"]

\* extractQuestionsInChunksParallel(pdfText, filename, chunkSize) runs to its
\* first await, lines 1298-1315
ExtractQuestionsInChunksParallel ==
    /\ extractCall # Null
    /\ Extracted.st = "new"
    /\ extractCall' = Some(IF Extracted.chunks = 0
                           THEN [Extracted EXCEPT !.st = "returned"]
                           ELSE StartChunkBatch(Extracted, 1))
    /\ FrameChunks

\* a call of processTextChunk returns the questions of its chunk
ProcessTextChunkReturns(chunk, ids) ==
    /\ extractCall # Null
    /\ Extracted.st = "awaiting"
    /\ chunk \in 1..Extracted.chunks
    /\ Extracted.status[chunk] = "pending"
    /\ extractCall' = Some(AfterChunkBatch([Extracted EXCEPT
                               !.status[chunk] = "fulfilled",
                               !.value[chunk] = ChunkQuestions(chunk, ids),
                               !.settled = Append(@, chunk)]))
    /\ FrameChunks

\* a call of processTextChunk throws, lines 1394-1397
ProcessTextChunkThrows(chunk) ==
    /\ extractCall # Null
    /\ Extracted.st = "awaiting"
    /\ chunk \in 1..Extracted.chunks
    /\ Extracted.status[chunk] = "pending"
    /\ extractCall' = Some(AfterChunkBatch([Extracted EXCEPT
                               !.status[chunk] = "rejected",
                               !.settled = Append(@, chunk)]))
    /\ FrameChunks

\* sleep(this.adaptiveDelay) is over, lines 1330-1332: the next batch starts
ChunkPauseDone ==
    /\ extractCall # Null
    /\ Extracted.st = "sleeping"
    /\ extractCall' = Some(StartChunkBatch(Extracted, Extracted.batch + 1))
    /\ FrameChunks

----------------------------------------------------------------------------
(* Specifications *)

InitG == IdleG /\ IdleD /\ IdleO /\ IdleC /\ IdleF /\ credentialsOk = TRUE /\ IdleX

InitD == IdleG /\ IdleD /\ IdleO /\ IdleC /\ IdleF /\ credentialsOk \in BOOLEAN /\ IdleX

NextD ==
    \/ \E r \in Downloads :
        \/ \E f \in Files : DownloadFileQueuedHit(r, f) \/ DownloadFileQueuedMiss(r, f)
        \/ ExecuteDownloadInitFails(r)
        \/ DownloadReturns(r)
        \/ DownloadFails(r)
    \/ DownloadTimerFires
    \/ \E f \in Files : DownloadCacheExpires(f)

SpecDrive == InitD /\ [][NextD]_vars

\* The steps the runtime takes by itself: a remote download returns or fails
\* in finite time, a promise reaction runs, a 100 ms timer fires. Callers are
\* free never to ask for a download.
ProgressD ==
    \/ \E r \in Downloads :
        \/ ExecuteDownloadInitFails(r)
        \/ DownloadReturns(r)
        \/ DownloadFails(r)
    \/ DownloadTimerFires

FairSpecDrive == SpecDrive /\ WF_vars(ProgressD)

NextG ==
    \/ \E r \in Requests :
        \/ QueuedGeminiRequest(r)
        \/ GenerateContentReturns(r)
        \/ GenerateContentFailsRetry(r)
        \/ GenerateContentFailsLast(r)
        \/ RetrySleepDone(r)
    \/ QueueTimerFires

SpecGemini == InitG /\ [][NextG]_vars

\* The steps the runtime takes by itself: a generateContent call returns or
\* fails in finite time, a sleep or timer ends, a promise reaction runs.
\* Callers are free never to issue a request.
ProgressG ==
    \/ \E r \in Requests :
        \/ GenerateContentReturns(r)
        \/ GenerateContentFailsRetry(r)
        \/ GenerateContentFailsLast(r)
        \/ RetrySleepDone(r)
    \/ QueueTimerFires

FairnessG == WF_vars(ProgressG)

FairSpecGemini == SpecGemini /\ FairnessG

InitC == IdleG /\ IdleD /\ IdleO /\ IdleC /\ IdleF /\ credentialsOk = TRUE /\ IdleX

NextC ==
    \/ \E key \in CacheKeys :
        \/ CacheHit(key)
        \/ CacheMiss(key)
        \/ RemoteReturns(key)
        \/ RemoteFails(key)
        \/ \E due \in 0..(MaxTime + TTL(key)) : EvictionTimerFires(key, due)
    \/ RankingMiss
    \/ ClearAllCaches
    \/ ClearCaches
    \/ Tick

SpecCaches == InitC /\ [][NextC]_vars

InitJ == IdleG /\ IdleD /\ IdleO /\ IdleC /\ IdleF /\ credentialsOk = TRUE /\ IdleX

NextJ ==
    \E c \in JudgmentCalls :
        \/ \E q \in JudgedQuestions, j \in JudgedDocuments :
              \/ AnalyzePolicyCacheHit(c, q, j)
              \/ AnalyzePolicyCacheMiss(c, q, j)
        \/ JudgmentReturns(c)
        \/ JudgmentThrows(c)

SpecJudgment == InitJ /\ [][NextJ]_vars

\* one call of a function without state is about to be made
InitP ==
    /\ IdleG /\ IdleD /\ IdleO /\ IdleC
    /\ credentialsOk = TRUE
    /\ jcall = [c \in JudgmentCalls |-> NewJudgmentCall]
    /\ rankCall = Null
    /\ \E fn \in DOMAIN PureCalls : \E args \in PureCalls[fn] :
          pureCall = Some([fn |-> fn, args |-> args, returned |-> FALSE,
                           result |-> Null])
    /\ IdleX

NextP ==
    \/ CreateBatchesReturns
    \/ FuzzyMatchReturns
    \/ CalculateRelevanceScoreReturns
    \/ AdjustAdaptiveDelayReturns
    \/ ParseJSONResponseReturns
    \/ FindLastCompleteQuestionReturns
    \/ ValidateParsedResponseReturns
    \/ SmartTruncatePolicyTextReturns
    \/ SplitTextIntoChunksReturns

SpecPure == InitP /\ [][NextP]_vars

\* The server has started and loadPolicyIndex has succeeded or failed (lines
\* 809-848); no ranking is cached.
InitR ==
    /\ IdleG /\ IdleD /\ IdleC
    /\ credentialsOk = TRUE
    /\ questions = <<>>
    /\ isLoaded \in BOOLEAN
    /\ policyIndex = IF isLoaded THEN [j \in 1..NumPolicies |-> CatalogueEntry(j)]
                     ELSE <<>>
    /\ policyFileIdCache = <<>>
    /\ relevanceScoringCache = <<>>
    /\ cache = <<>>
    /\ processingStats = NewStats(0)
    /\ evidenceByQuestion = <<>>
    /\ runState = "idle"
    /\ currentBatch = 0
    /\ batchPauses = 0
    /\ task = <<>>
    /\ jcall = [c \in JudgmentCalls |-> NewJudgmentCall]
    /\ pureCall = Null
    /\ rankCall = Some(NoRankCall)
    /\ IdleX

NextR ==
    \/ \E c \in RankedCalls : FindRelevantPoliciesCall(c[1], c[2])
    \/ \E i \in RankedQuestions : RankingTimerFires(i)
    \/ ClearRankings

SpecRanking == InitR /\ [][NextR]_vars

\* loadPolicyIndex has succeeded: the Drive client is initialized and the file
\* ids are preloaded; the metadata cache is empty or holds one file;
\* batchCheckPolicyExistence is about to be called.
InitE ==
    /\ IdleG /\ IdleC /\ IdleF
    /\ downloadQueue = <<>>
    /\ processingDownloads = FALSE
    /\ activeDownloads = 0
    /\ downloadCache = {}
    /\ evictTimers = [f \in Files |-> 0]
    /\ dl = [r \in Downloads |-> NewDownload]
    /\ downloadTimers = 0
    /\ failedDownloads = 0
    /\ credentialsOk = TRUE
    /\ initialized = TRUE
    /\ questions = <<>>
    /\ isLoaded = TRUE
    /\ policyIndex = [j \in 1..MaxCheckedPolicies |-> CatalogueEntry(j)]
    /\ policyFileIdCache = CheckedFileIds
    /\ relevanceScoringCache = <<>>
    /\ cache = <<>>
    /\ processingStats = NewStats(0)
    /\ evidenceByQuestion = <<>>
    /\ runState = "idle"
    /\ currentBatch = 0
    /\ batchPauses = 0
    /\ task = <<>>
    /\ metadataCache \in {{}, {"f2"}}
    /\ \E policies \in CheckedPolicies : existCall = Some(NewExistCall(policies))
    /\ extractCall = Null
    /\ scanCall = Null

NextE ==
    \/ BatchCheckPolicyExistence
    \/ \E i \in 1..MaxCheckedPolicies : FilesGetReturns(i) \/ FilesGetThrows(i)
    \/ ExistencePauseDone

SpecExistence == InitE /\ [][NextE]_vars

\* extractQuestionsInChunksParallel is about to be called for a text of up
\* to MaxChunks chunks
InitChunks ==
    /\ IdleG /\ IdleD /\ IdleO /\ IdleC /\ IdleF
    /\ credentialsOk = TRUE
    /\ metadataCache = {}
    /\ existCall = Null
    /\ \E chunks \in 0..MaxChunks : extractCall = Some(NewExtractCall(chunks))
    /\ scanCall = Null

NextChunks ==
    \/ ExtractQuestionsInChunksParallel
    \/ \E chunk \in 1..MaxChunks :
          \/ \E ids \in ReturnedIds : ProcessTextChunkReturns(chunk, ids)
          \/ ProcessTextChunkThrows(chunk)
    \/ ChunkPauseDone

SpecExtraction == InitChunks /\ [][NextChunks]_vars

\* findKeywordPositions is about to be called
InitScan ==
    /\ IdleG /\ IdleD /\ IdleO /\ IdleC /\ IdleF
    /\ credentialsOk = TRUE
    /\ metadataCache = {}
    /\ existCall = Null
    /\ extractCall = Null
    /\ \E text \in ScannedTexts, keyword \in ScannedKeywords :
          scanCall = Some(NewScanCall(text, keyword))

NextScan ==
    \/ FindKeywordPositions
    \/ KeywordFound
    \/ FindKeywordPositionsReturns

SpecScan == InitScan /\ [][NextScan]_vars

----------------------------------------------------------------------------
(* Properties of OptimizedGeminiService *)

InFlight == {r \in Requests : req[r].st \in {"calling", "sleeping"}}

\* C4: the number of reasoning calls in flight, activeRequests, counts exactly
\* the requests whose executeRequest has not finished and always lies between
\* 0 and the concurrency limit 3.
C4_ActiveRequestsBounded ==
    /\ activeRequests >= 0
    /\ activeRequests <= 3
    /\ activeRequests = Cardinality(InFlight)

\* C4 witness: the limit is reached while another request waits in the queue.
C4_Witness ==
    /\ activeRequests = 3
    /\ Len(requestQueue) > 0

\* C5: a request calls the reasoning capability at most 4 times; the sleeps
\* before its retries are 1000, 2000, 4000 ms in this order; at most one call
\* of a request does not fail, and it is the last one (a resolved request made
\* exactly one call more than failed); a request is rejected only after 4
\* failed calls and all three sleeps.
C5_RetryProtocol ==
    \A r \in Requests :
        /\ req[r].attempts <= 4
        /\ req[r].delays = SubSeq(<<1000, 2000, 4000>>, 1, Len(req[r].delays))
        /\ Len(req[r].delays) = req[r].fails - (IF req[r].outcome = "rejected" THEN 1 ELSE 0)
        /\ req[r].attempts <= req[r].fails + 1
        /\ req[r].outcome = "resolved" => req[r].attempts = req[r].fails + 1
        /\ req[r].outcome = "rejected" =>
               /\ req[r].attempts = 4
               /\ req[r].fails = 4
               /\ req[r].delays = <<1000, 2000, 4000>>

\* C5 witness: one request was rejected after all retries and another one was
\* resolved by a retry.
C5_Witness ==
    /\ \E r \in Requests : req[r].outcome = "rejected" /\ req[r].attempts = 4
    /\ \E r \in Requests : req[r].outcome = "resolved"

\* C6: every request handed to queuedGeminiRequest is eventually settled (no
\* issued request stays unsettled forever), no request stays in the queue
\* forever while fewer than 3 calls are active, and the promise of a request
\* is resolved or rejected exactly once.
C6_EveryRequestSettles ==
    /\ []<>(\A r \in Requests : req[r].st = "new" \/ req[r].outcome # "none")
    /\ []<>(\A r \in Requests : ~(req[r].st = "queued" /\ activeRequests < 3))
    /\ [](\A r \in Requests :
            /\ req[r].settles <= 1
            /\ (req[r].outcome # "none") <=> (req[r].settles = 1))

\* C6 witness: a request that had to wait in the queue has been settled.
C6_Witness ==
    \E r \in Requests : req[r].waited /\ req[r].st = "done" /\ req[r].settles = 1

----------------------------------------------------------------------------
(* Properties of OptimizedDriveService *)

Downloading == {r \in Downloads : dl[r].st \in {"failing", "downloading"}}

\* C7: the number of downloads in flight, activeDownloads, counts exactly the
\* requests whose executeDownload has not finished and always lies between 0
\* and the download concurrency limit 6.
C7_ActiveDownloadsBounded ==
    /\ activeDownloads >= 0
    /\ activeDownloads <= 6
    /\ activeDownloads = Cardinality(Downloading)

\* C7 witness: six downloads are in flight while another request waits.
C7_Witness ==
    /\ activeDownloads = 6
    /\ Len(downloadQueue) > 0

\* C8: every request enqueued by downloadFileQueued is eventually dispatched
\* and its promise resolved or rejected (no issued request stays unsettled
\* forever), exactly once, and the download queue becomes empty again and
\* again.
C8_DownloadQueueDrains ==
    /\ []<>(\A r \in Downloads : dl[r].st = "new" \/ dl[r].outcome # "none")
    /\ []<>(downloadQueue = <<>>)
    /\ [](\A r \in Downloads :
            /\ dl[r].settles <= 1
            /\ (dl[r].outcome # "none") <=> (dl[r].settles = 1))

\* C8 witness: a request that had to wait in the queue was downloaded, another
\* request was rejected, and the queue is empty.
C8_Witness ==
    /\ downloadQueue = <<>>
    /\ \E r \in Downloads :
          dl[r].waited /\ ~dl[r].hit /\ dl[r].outcome = "resolved" /\ dl[r].settles = 1
    /\ \E r \in Downloads : dl[r].outcome = "rejected"

----------------------------------------------------------------------------
(* Properties of ParallelProcessor *)

\* the batch of createBatches(questions, 3) that holds question q
BatchOf(q) == (q - 1) \div maxConcurrentQuestions + 1

\* batchResults.forEach has run for the batch of question q
Collected(q) ==
    \/ BatchOf(q) < currentBatch
    \/ BatchOf(q) = currentBatch /\ runState \in {"pausing", "returned"}

\* processQuestionParallel throws for question q: the index is not loaded, or
\* the keywords of the question cannot be sorted
Throws(q) == ~isLoaded \/ ~questions[q].keywordsIsArray

\* C1: settle-all isolation at question level. Once the results of a batch
\* are collected, a question whose processing threw has the empty list under
\* its id, and every other question of the batch (and of the batches before
\* it) has settled fulfilled and has the list it computed under its id; the
\* run goes on to the next batch or returns, it has no rejected state.
C1_SettleAllIsolation ==
    /\ runState \in {"idle", "running", "pausing", "returned"}
    /\ \A q \in 1..Len(questions) :
          Collected(q) =>
              /\ questions[q].id \in DOMAIN evidenceByQuestion
              /\ Throws(q) =>
                    /\ task[q].st = "rejected"
                    /\ evidenceByQuestion[questions[q].id] = <<>>
              /\ ~Throws(q) =>
                    /\ task[q].st = "fulfilled"
                    /\ evidenceByQuestion[questions[q].id] = task[q].value
    /\ runState = "returned" => \A q \in 1..Len(questions) : Collected(q)

\* the run has returned; question 3 threw, question 1 of the same batch and
\* question 4 of the next batch have evidence
C1_Witness ==
    /\ runState = "returned"
    /\ isLoaded
    /\ Throws(3)
    /\ evidenceByQuestion[questions[3].id] = <<>>
    /\ Len(evidenceByQuestion[questions[1].id]) > 0
    /\ Len(evidenceByQuestion[questions[4].id]) > 0

\* the judgment of (question q, document at position i) fails terminally
JudgmentFails(q, i) ==
    /\ HasText(task[q].policyContents[i])
    /\ ReasoningAnswer(questions[q].text, task[q].existingPolicies[i].pdf_name,
                       task[q].policyContents[i][1]).kind = "error"

\* the judgment of (question q, document at position i) gives evidence
JudgmentAnswers(q, i) ==
    /\ HasText(task[q].policyContents[i])
    /\ ReasoningAnswer(questions[q].text, task[q].existingPolicies[i].pdf_name,
                       task[q].policyContents[i][1]).kind = "answer"

\* C2: leaf failure isolation. No analysis task ever settles rejected. Once a
\* question has returned, every document whose judgment failed has settled
\* fulfilled with no evidence and is absent from the list, and every document
\* whose judgment gives evidence has settled fulfilled with evidence that is
\* in the list of the question.
C2_LeafFailureIsolation ==
    \A q \in 1..Len(questions) :
        /\ \A i \in 1..Len(task[q].slots) : task[q].slots[i].status # "rejected"
        /\ task[q].st = "fulfilled" =>
              \A i \in 1..Len(task[q].existingPolicies) :
                  /\ JudgmentFails(q, i) =>
                        /\ task[q].slots[i].status = "fulfilled"
                        /\ task[q].slots[i].value = Null
                        /\ \A k \in 1..Len(task[q].value) :
                              task[q].value[k].docName #
                                  task[q].existingPolicies[i].pdf_name
                  /\ JudgmentAnswers(q, i) =>
                        /\ task[q].slots[i].status = "fulfilled"
                        /\ task[q].slots[i].value # Null
                        /\ \E k \in 1..Len(task[q].value) :
                              task[q].value[k] = task[q].slots[i].value[1]

\* a question has returned; the judgment of one of its documents was asked
\* for and failed, and the judgments of other documents are in its list
C2_Witness ==
    \E q \in 1..Len(questions) :
        /\ task[q].st = "fulfilled"
        /\ \E i \in task[q].judged : JudgmentFails(q, i)
        /\ \E i \in task[q].judged :
              /\ JudgmentAnswers(q, i)
              /\ \E k \in 1..Len(task[q].value) :
                    task[q].value[k].docName = task[q].existingPolicies[i].pdf_name

\* C3: question batches run strictly sequentially. A question that has
\* started belongs to the current batch or to a batch before it, and the
\* questions of the batches before the current one have all settled; when the
\* run awaits a batch, every question of the batch has been started; one pause
\* has been made per finished batch that has a successor, and none after the
\* last batch.
C3_SequentialBatches ==
    LET last == NumBatchesOf(Len(questions), maxConcurrentQuestions)
    IN  /\ \A q \in 1..Len(questions) :
              /\ task[q].st # "new" => BatchOf(q) <= currentBatch
              /\ BatchOf(q) < currentBatch => Settled(task[q])
              /\ (runState = "running" /\ BatchOf(q) = currentBatch) =>
                     task[q].st # "new"
        /\ runState = "running" => batchPauses = currentBatch - 1
        /\ runState = "pausing" =>
              /\ currentBatch < last
              /\ batchPauses = currentBatch
              /\ \A q \in 1..Len(questions) : BatchOf(q) > currentBatch =>
                     task[q].st = "new"
        /\ runState = "returned" => currentBatch = last /\ batchPauses = last - 1

\* the run has returned after two batches and one pause
C3_Witness ==
    /\ runState = "returned"
    /\ currentBatch = 2
    /\ batchPauses = 1
    /\ isLoaded
    /\ \A q \in 1..Len(questions) : Settled(task[q])
    /\ Len(task[1].value) > 0
    /\ Len(task[4].value) > 0

\* the candidates question q collects when every judgment is made for q
\* itself, in the order of its documents
OwnCandidates(q) ==
    LET t         == task[q]
        answer(i) == ReasoningAnswer(questions[q].text, t.existingPolicies[i].pdf_name,
                                     t.policyContents[i][1])
        answered  == SelectSeq([i \in 1..Len(t.existingPolicies) |-> i],
                               LAMBDA i : JudgmentAnswers(q, i))
    IN  [k \in 1..Len(answered) |->
            [docName |-> t.existingPolicies[answered[k]].pdf_name,
             subfolder |-> t.existingPolicies[answered[k]].subfolder,
             answer |-> answer(answered[k]).answer,
             evidence |-> answer(answered[k]).evidence,
             confidence |-> answer(answered[k]).confidence,
             score |-> t.existingPolicies[answered[k]].score]]

\* C9: completion-order independence. The questions, the index, the store
\* and the reasoning capability are fixed, so whatever the order in which the
\* existence checks, downloads and judgments complete, the run returns for
\* every question that does not throw the sorted list of the candidates of
\* its own judgments.
C9_CompletionOrderIndependence ==
    runState = "returned" =>
        \A q \in 1..Len(questions) :
            ~Throws(q) =>
                evidenceByQuestion[questions[q].id]
                    = StableSort(OwnCandidates(q), CompareCandidates)

\* one order of completion: the run has returned and every question has the
\* list of its own judgments
C9_Witness ==
    /\ runState = "returned"
    /\ isLoaded
    /\ \A q \in 1..Len(questions) :
          /\ ~Throws(q)
          /\ evidenceByQuestion[questions[q].id]
                 = StableSort(OwnCandidates(q), CompareCandidates)
    /\ Len(evidenceByQuestion[questions[2].id]) > 0

\* the triple (confidence rank, answer rank, relevance score) of a candidate
C10_Triple(e) ==
    <<CASE e.confidence = "high" -> 3 [] e.confidence = "medium" -> 2
        [] e.confidence = "low" -> 1,
      CASE e.answer = "yes" -> 3 [] e.answer = "no" -> 2 [] e.answer = "partial" -> 1,
      e.score>>

\* triple a is lexicographically greater than or equal to triple b
C10_AtLeast(a, b) ==
    \/ a[1] > b[1]
    \/ a[1] = b[1] /\ a[2] > b[2]
    \/ a[1] = b[1] /\ a[2] = b[2] /\ a[3] >= b[3]

\* the place of list element k among the collected candidates
C10_CollectedAt(q, k) ==
    CHOOSE c \in 1..Len(task[q].candidates) : task[q].candidates[c] = task[q].value[k]

\* C10: aggregation order. The list a question returns holds the collected
\* candidates; the triples of adjacent elements do not increase, with
\* high > medium > low and yes > no > partial; elements with equal triples
\* stand in the order in which they were collected.
C10_AggregationOrder ==
    \A q \in 1..Len(questions) :
        task[q].st = "fulfilled" =>
            LET list == task[q].value
            IN  /\ Len(list) = Len(task[q].candidates)
                /\ \A c \in 1..Len(task[q].candidates) :
                       \E k \in 1..Len(list) : list[k] = task[q].candidates[c]
                /\ \A k \in 1..(Len(list) - 1) :
                       /\ C10_AtLeast(C10_Triple(list[k]), C10_Triple(list[k + 1]))
                       /\ C10_Triple(list[k]) = C10_Triple(list[k + 1]) =>
                              C10_CollectedAt(q, k) < C10_CollectedAt(q, k + 1)

\* a returned list in which the confidence, the answer, the score and the
\* order of collection each decide the place of two adjacent elements
C10_Witness ==
    \E q \in 1..Len(questions) :
        /\ task[q].st = "fulfilled"
        /\ LET list  == task[q].value
               T(k)  == C10_Triple(list[k])
               pairs == 1..(Len(list) - 1)
           IN  /\ \E k \in pairs : T(k)[1] > T(k + 1)[1] /\ T(k)[3] < T(k + 1)[3]
               /\ \E k \in pairs : T(k)[1] = T(k + 1)[1] /\ T(k)[2] > T(k + 1)[2]
                                   /\ T(k)[3] <= T(k + 1)[3]
               /\ \E k \in pairs : T(k)[1] = T(k + 1)[1] /\ T(k)[2] = T(k + 1)[2]
                                   /\ T(k)[3] > T(k + 1)[3]
               /\ \E k \in pairs : T(k) = T(k + 1)

----------------------------------------------------------------------------
(* Properties of the caches with a time to live *)

\* the time to live the caches are documented with, in minutes
C11_DocumentedMinutes(key) ==
    CASE key = "folders" -> 10 [] key = "pdfs" -> 5 [] key = "metadata" -> 15
      [] key = "download" -> 30 [] key = "ranking" -> 30

C12_RankingCacheTTL ==
    (lookup.key = "ranking" /\ lookup.sinceSet # Absent) =>
        /\ (lookup.sinceSet * MinutesPerTick < 30 /\ ~lookup.cleared) => lookup.hit
        /\ lookup.sinceSet * MinutesPerTick > 30 => ~lookup.hit

\* a call was answered from the cache 25 minutes after the ranking was set
C12_Witness ==
    /\ lookup.key = "ranking"
    /\ lookup.hit
    /\ lookup.sinceSet * MinutesPerTick = 25
    /\ ~lookup.cleared

----------------------------------------------------------------------------
(* Properties of analyzyePolicyWithCache *)

\* C13: judgment caching. A call made after a call with the same question
\* text and the same first 1000 characters of document text has completed
\* returns without invoking the reasoning capability, whatever the first call
\* returned.
C13_JudgmentCaching ==
    \A c \in JudgmentCalls : jcall[c].repeated => ~jcall[c].invoked

\* a call that found evidence has completed and a later call with the same
\* key was answered from the cache
C13_Witness ==
    \E c \in JudgmentCalls :
        /\ jcall[c].st = "done"
        /\ jcall[c].repeated
        /\ ~jcall[c].invoked
        /\ jcall[c].value # Null

----------------------------------------------------------------------------
(* Properties of the functions without state *)

\* the elements of the groups, group after group
RECURSIVE C14_Concatenation(_)
C14_Concatenation(groups) ==
    IF Len(groups) = 0 THEN <<>>
    ELSE Head(groups) \o C14_Concatenation(Tail(groups))

\* C14: batch partitioning. The groups createBatches returns, put one after
\* the other, are the input list; every group but the last has exactly
\* batchSize elements and the last has between 1 and batchSize; 7 items in
\* batches of 3 give the sizes 3, 3, 1 and the empty list gives no group.
C14_BatchPartitioning ==
    (pureCall # Null /\ Called.fn = "createBatches" /\ Called.returned) =>
        LET array  == Called.args[1]
            n      == Called.args[2]
            groups == Called.result
        IN  /\ C14_Concatenation(groups) = array
            /\ \A b \in 1..(Len(groups) - 1) : Len(groups[b]) = n
            /\ Len(groups) > 0 =>
                  Len(groups[Len(groups)]) >= 1 /\ Len(groups[Len(groups)]) <= n
            /\ Len(array) = 0 => Len(groups) = 0
            /\ (Len(array) = 7 /\ n = 3) =>
                  /\ Len(groups) = 3
                  /\ Len(groups[1]) = 3 /\ Len(groups[2]) = 3 /\ Len(groups[3]) = 1

\* createBatches has returned three groups for 7 items and batch size 3
C14_Witness ==
    /\ pureCall # Null
    /\ Called.fn = "createBatches"
    /\ Called.returned
    /\ Len(Called.args[1]) = 7
    /\ Called.args[2] = 3
    /\ Len(Called.result) = 3

\* the question and the document of the worked example: keywords privacy and
\* security against privacy and secur, same category, empty description
C17_Example ==
    /\ pureCall # Null
    /\ Called.fn = "calculateRelevanceScore"
    /\ Called.returned
    /\ Called.args[1].category = "Privacy"
    /\ Called.args[1].keywords \in {<<"privacy", "security">>, <<"security", "Privacy">>}
    /\ Called.args[2].category = "Privacy"
    /\ Called.args[2].keywords = <<"privacy", "secur">>
    /\ Called.args[2].short_description = ""

\* C17 as stated: the score of the worked example is 120.
C17_ScoreIs120 == C17_Example => Called.result = 120

\* C17: scoring arithmetic. The score of the worked example is 135: 50 for the
\* category, 20 + 30 + 15 for the pair (privacy, privacy), which is contained,
\* equal and similar, and 20 for the pair (security, secur).
C17_ScoringArithmetic == C17_Example => Called.result = 50 + (20 + 30 + 15) + 20

\* the worked example has been scored
C17_Witness == C17_Example /\ Called.result = 135

\* the edit distance of the characters of a from position i and the
\* characters of b from position j: the fewest insertions, deletions and
\* substitutions that turn one into the other
RECURSIVE C18_Distance(_, _, _, _)
C18_Distance(a, i, b, j) ==
    IF i > Len(a) THEN Len(b) - j + 1
    ELSE IF j > Len(b) THEN Len(a) - i + 1
    ELSE IF SubSeq(a, i, i) = SubSeq(b, j, j) THEN C18_Distance(a, i + 1, b, j + 1)
    ELSE 1 + Min(C18_Distance(a, i + 1, b, j + 1),
                 Min(C18_Distance(a, i + 1, b, j), C18_Distance(a, i, b, j + 1)))

\* C18: fuzzy match boundary. For two keywords of which the longer has L >= 1
\* characters and whose edit distance is d, fuzzyMatch holds exactly when
\* (L - d) / L >= 0.7, that is when 10 * (L - d) >= 7 * L.
C18_FuzzyMatchBoundary ==
    (pureCall # Null /\ Called.fn = "fuzzyMatch" /\ Called.returned) =>
        LET L == Max(Len(Called.args[1]), Len(Called.args[2]))
            d == C18_Distance(Called.args[1], 1, Called.args[2], 1)
        IN  L >= 1 => (Called.result <=> (10 * (L - d) >= 7 * L))

\* two keywords with L = 10 and d = 3 have been found to match
C18_Witness ==
    /\ pureCall # Null
    /\ Called.fn = "fuzzyMatch"
    /\ Called.returned
    /\ Len(Called.args[1]) = 10
    /\ Len(Called.args[2]) = 10
    /\ C18_Distance(Called.args[1], 1, Called.args[2], 1) = 3
    /\ Called.result = TRUE

----------------------------------------------------------------------------
(* Properties of the ranking *)

\* the score calculateRelevanceScore gives every document of the catalogue,
\* which is the index once loaded, for every question
C16_Scores ==
    [i \in RankedQuestions |-> [p \in 1..NumPolicies |->
        calculateRelevanceScore(normalizeQuestion(QuestionInput(i)),
                                normalizePolicy(CatalogueEntry(p)))]]

C16_Score(i, p) == C16_Scores[i][p]

\* C15: ranking determinism. A call of findRelevantPolicies returns what the
\* call before it with the same question content, the same index and the same
\* maxResults returned: the same documents in the same order with the same
\* scores, whether the cache answered it or the ranking was computed again.
C15_RankingDeterminism ==
    (rankCall # Null /\ Ranked.calls > 0 /\ ~Ranked.threw /\ Ranked.previous # Null) =>
        Ranked.policies = Ranked.previous[1]

\* a ranking of two documents was computed again and is the one that the call
\* before with the same arguments returned
C15_Witness ==
    /\ rankCall # Null
    /\ Ranked.calls > 1
    /\ ~Ranked.threw
    /\ ~Ranked.cached
    /\ Ranked.previous # Null
    /\ Len(Ranked.policies) = 2
    /\ Ranked.policies = Ranked.previous[1]

\* C16: ranking result shape. Every call findRelevantPolicies(question,
\* maxResults) that returns, a call answered from the cache included, returns
\* documents of the index with their scores, all positive, in non-increasing
\* order of score, no document left out having a higher score than a returned
\* one, and exactly min(maxResults, number of documents with positive score)
\* of them.
C16_RankingResultShape ==
    (rankCall # Null /\ Ranked.calls > 0 /\ ~Ranked.threw) =>
        LET i        == Ranked.question
            policies == Ranked.policies
            positive == {p \in 1..Len(policyIndex) : C16_Score(i, p) > 0}
            Place(k) == CHOOSE p \in 1..Len(policyIndex) :
                            policyIndex[p].pdf_name = policies[k].pdf_name
        IN  /\ Len(policies) = Min(Ranked.maxResults, Cardinality(positive))
            /\ \A k \in 1..Len(policies) :
                  /\ \E p \in positive : policyIndex[p].pdf_name = policies[k].pdf_name
                  /\ policies[k].score = C16_Score(i, Place(k))
                  /\ policies[k].score > 0
            /\ \A k \in 1..(Len(policies) - 1) : policies[k].score >= policies[k + 1].score
            /\ \A p \in positive :
                  (\A k \in 1..Len(policies) : policies[k].pdf_name # policyIndex[p].pdf_name)
                      => \A k \in 1..Len(policies) : policies[k].score >= C16_Score(i, p)

\* a call with maxResults below the number of documents with a positive score
\* was answered by ranking and returned maxResults documents
C16_Witness ==
    /\ rankCall # Null
    /\ Ranked.calls > 0
    /\ ~Ranked.threw
    /\ ~Ranked.cached
    /\ Ranked.maxResults = 2
    /\ Len(Ranked.policies) = 2
    /\ Cardinality({p \in 1..Len(policyIndex) : C16_Score(Ranked.question, p) > 0}) > 2

----------------------------------------------------------------------------
(* Properties of the processing of one question *)

\* C19: empty ranking. A question for which findRelevantPolicies returned the
\* empty list settles fulfilled with the empty list at once: it never waits
\* for an existence check, a download or a judgment and none is made for it,
\* and the empty list is stored under its id. The other questions that do not
\* throw are fulfilled and have the list they computed under their id.
C19_EmptyRanking ==
    \A q \in 1..Len(questions) :
        (task[q].st # "new" /\ ~Throws(q) /\ task[q].relevantPolicies = <<>>) =>
            /\ task[q].st = "fulfilled"
            /\ task[q].value = <<>>
            /\ task[q].existingPolicies = <<>>
            /\ task[q].policyContents = <<>>
            /\ task[q].downloadBatch = 0
            /\ task[q].pendingDownloads = {}
            /\ task[q].policyBatch = 0
            /\ task[q].pendingJudgments = {}
            /\ task[q].judged = {}
            /\ Collected(q) =>
                  /\ evidenceByQuestion[questions[q].id] = <<>>
                  /\ \A o \in 1..Len(questions) :
                        (Collected(o) /\ ~Throws(o)) =>
                            /\ task[o].st = "fulfilled"
                            /\ evidenceByQuestion[questions[o].id] = task[o].value

\* the run has returned: question 5, for which nothing was ranked, has the
\* empty list and question 4 of the same batch has evidence
C19_Witness ==
    /\ runState = "returned"
    /\ isLoaded
    /\ task[5].relevantPolicies = <<>>
    /\ task[5].st = "fulfilled"
    /\ evidenceByQuestion[questions[5].id] = <<>>
    /\ Len(task[4].relevantPolicies) > 0
    /\ Len(evidenceByQuestion[questions[4].id]) > 0

\* the entry of the catalogue that a ranked document is
C20_Entry(policy) ==
    CHOOSE j \in 1..NumPolicies : CatalogueEntry(j).pdf_name = policy.pdf_name

\* drive.files.get succeeds for the file of a ranked document
C20_Exists(policy) ==
    /\ PreloadedFileId(C20_Entry(policy)) # ""
    /\ DriveFileExists(PreloadedFileId(C20_Entry(policy)))

\* C20: only survivors are judged. For every question, the documents kept
\* after the existence check are ranked documents that exist; the reasoning
\* capability is called only for a document that exists and whose text was
\* fetched; every entry of the collected candidates and of the evidence list
\* names such a document.
C20_OnlySurvivorsJudged ==
    \A q \in 1..Len(questions) :
        LET t == task[q]
            Survivor(i) == /\ i \in 1..Len(t.existingPolicies)
                           /\ C20_Exists(t.existingPolicies[i])
                           /\ HasText(t.policyContents[i])
            Names(list) == {list[k].docName : k \in 1..Len(list)}
        IN  /\ \A i \in 1..Len(t.existingPolicies) :
                  /\ C20_Exists(t.existingPolicies[i])
                  /\ \E p \in 1..Len(t.relevantPolicies) :
                        t.relevantPolicies[p] = t.existingPolicies[i]
            /\ \A i \in t.judged : Survivor(i)
            /\ \A name \in Names(t.candidates) \cup Names(t.value) :
                  \E i \in 1..Len(t.existingPolicies) :
                      t.existingPolicies[i].pdf_name = name /\ Survivor(i)

\* a question has settled with evidence; one of its ranked documents did not
\* exist, or the fetch of one that exists gave no text, and was not judged
C20_Witness ==
    \E q \in 1..Len(questions) :
        /\ task[q].st = "fulfilled"
        /\ Len(task[q].value) > 0
        /\ task[q].judged # {}
        /\ \/ \E p \in 1..Len(task[q].relevantPolicies) :
                  ~C20_Exists(task[q].relevantPolicies[p])
           \/ \E i \in 1..Len(task[q].existingPolicies) :
                  ~HasText(task[q].policyContents[i]) /\ i \notin task[q].judged

----------------------------------------------------------------------------
(* Properties of the download cache *)

\* C27: content cache size rule. The download cache holds only files of
\* fewer than 5 MB; a request answered from the cache was for such a file, so
\* a request for a file of 5 MB or more is never answered from the cache; a
\* request answered from the cache is resolved at once, without waiting in
\* the queue, and the step leaves the download queue and activeDownloads as
\* they were.
C27_ContentCacheSizeRule ==
    /\ [](\A f \in downloadCache : FileBytes(f) < 5 * 1024 * 1024)
    /\ [](\A r \in Downloads :
            /\ dl[r].hit =>
                  /\ FileBytes(dl[r].file) < 5 * 1024 * 1024
                  /\ dl[r].st = "done"
                  /\ dl[r].outcome = "resolved"
                  /\ dl[r].settles = 1
                  /\ ~dl[r].waited
            /\ (dl[r].file \in Files /\ FileBytes(dl[r].file) >= 5 * 1024 * 1024) =>
                  ~dl[r].hit)
    /\ [][\A r \in Downloads :
            (~dl[r].hit /\ dl'[r].hit) =>
                /\ dl[r].st = "new"
                /\ dl'[r].file \in downloadCache
                /\ downloadQueue' = downloadQueue
                /\ activeDownloads' = activeDownloads
                /\ downloadCache' = downloadCache]_vars

\* a request was answered from the cache and another was resolved by a
\* download; downloads are in flight, one of them of a file of 5 MB, and only
\* the small file is cached
C27_Witness ==
    /\ \E r \in Downloads : dl[r].hit /\ dl[r].file = 1
    /\ \E r \in Downloads :
          dl[r].st = "downloading" /\ FileBytes(dl[r].file) = 5 * 1024 * 1024
    /\ \E r \in Downloads : ~dl[r].hit /\ dl[r].outcome = "resolved" /\ r > 1
    /\ downloadCache = {1}
    /\ activeDownloads > 1

----------------------------------------------------------------------------
(* Properties of the adaptive delay *)

\* C29: adaptive delay rule. After adjustAdaptiveDelay, requestHistory holds
\* the last 10 entries at most, and with the failures and the average
\* duration of these entries the delay is min(delay * 1.5, 5000) if more than
\* 2 failed, else min(delay * 1.2, 3000) if the average exceeds 8000 ms, else
\* max(delay * 0.9, 500) if none failed and the average is under 3000 ms, and
\* unchanged otherwise.
C29_AdaptiveDelayRule ==
    (pureCall # Null /\ Called.fn = "adjustAdaptiveDelay" /\ Called.returned) =>
        LET before   == Called.args[1]
            delay    == Called.args[2]
            n        == IF Len(before) > 10 THEN 10 ELSE Len(before)
            recent   == SubSeq(before, Len(before) - n + 1, Len(before))
            failed   == Cardinality({i \in 1..n : ~recent[i].success})
            total    == SumSeq([i \in 1..n |-> recent[i].duration])
            expected == IF failed > 2
                        THEN Min((delay * 15) \div 10, 5000 * DelayScale)
                        ELSE IF total > 8000 * n
                        THEN Min((delay * 12) \div 10, 3000 * DelayScale)
                        ELSE IF failed = 0 /\ total < 3000 * n
                        THEN Max((delay * 9) \div 10, 500 * DelayScale)
                        ELSE delay
        IN  /\ Called.result.requestHistory = recent
            /\ Len(Called.result.requestHistory) <= 10
            /\ Called.result.adaptiveDelay = expected

\* a history of 11 entries was cut to 10, of which more than 2 failed and
\* whose average duration exceeds 8000 ms, and the delay went from 3375 ms to
\* the cap of 5000 ms
C29_Witness ==
    /\ pureCall # Null
    /\ Called.fn = "adjustAdaptiveDelay"
    /\ Called.returned
    /\ Len(Called.args[1]) = 11
    /\ Len(Called.result.requestHistory) = 10
    /\ Cardinality({i \in 1..10 : ~Called.result.requestHistory[i].success}) > 2
    /\ SumSeq([i \in 1..10 |-> Called.result.requestHistory[i].duration]) > 80000
    /\ Called.args[2] = 3375 * DelayScale
    /\ Called.result.adaptiveDelay = 5000 * DelayScale

----------------------------------------------------------------------------
(* Properties of batchDownloadPolicies *)

\* what the document store gives for a document of the index
C22_Stored(policy) ==
    DriveFileText(PreloadedFileId(
        CHOOSE j \in 1..NumPolicies : CatalogueEntry(j).pdf_name = policy.pdf_name))

\* C22: fetch failure isolation. For every question, policyContents has the
\* length of existingPolicies; once the fetch of position i has settled,
\* position i holds the text of document i, or null when its fetch failed,
\* whatever happened to the other positions; no question is rejected because
\* of a fetch; and a judgment is asked for position i with the text of
\* document i.
C22_FetchFailureIsolation ==
    \A q \in 1..Len(questions) :
        LET t == task[q]
            n == Len(t.existingPolicies)
            fetched(i) ==
                /\ t.downloadBatch > 0
                /\ i <= t.downloadBatch * maxConcurrentPolicyDownloads
                /\ i \notin t.pendingDownloads
        IN  /\ Len(t.policyContents) = n
            /\ \A i \in 1..n :
                  IF fetched(i)
                  THEN t.policyContents[i] =
                          IF C22_Stored(t.existingPolicies[i]).ok
                          THEN Some(C22_Stored(t.existingPolicies[i]).text)
                          ELSE Null
                  ELSE t.policyContents[i] = Null
            /\ t.st = "rejected" => Throws(q)
            /\ t.st \in {"analyzing", "analysisPause", "fulfilled"} =>
                  \A i \in 1..n : fetched(i)
            /\ \A i \in t.judged :
                  /\ C22_Stored(t.existingPolicies[i]).ok
                  /\ t.policyContents[i] = Some(C22_Stored(t.existingPolicies[i]).text)

\* a question is fulfilled with evidence; the fetch of one of its documents
\* failed and a document after it in the list has its text and was judged
C22_Witness ==
    \E q \in 1..Len(questions) :
        /\ task[q].st = "fulfilled"
        /\ Len(task[q].value) > 0
        /\ \E i, k \in 1..Len(task[q].existingPolicies) :
              /\ i < k
              /\ ~C22_Stored(task[q].existingPolicies[i]).ok
              /\ task[q].policyContents[i] = Null
              /\ HasText(task[q].policyContents[k])
              /\ k \in task[q].judged

----------------------------------------------------------------------------
(* Properties of the shared caches of the processor *)

\* C28: cache read-modify-write atomicity. No two questions wait at the same
\* time for the fetch of the same document, and no two questions wait at the
\* same time for the judgment of the same question text and document text:
\* the second one would have found the cache entry of the first.
C28_CacheAtomicity ==
    \A q1, q2 \in 1..Len(questions) :
        q1 # q2 =>
            /\ \A i \in task[q1].pendingDownloads : \A k \in task[q2].pendingDownloads :
                  ContentKey(task[q1].existingPolicies[i])
                      # ContentKey(task[q2].existingPolicies[k])
            /\ \A i \in task[q1].pendingJudgments : \A k \in task[q2].pendingJudgments :
                  AnalysisKey(questions[q1].text, task[q1].policyContents[i][1])
                      # AnalysisKey(questions[q2].text, task[q2].policyContents[k][1])

\* two questions of a batch wait for fetches at the same time, each for
\* documents of its own
C28_Witness ==
    \E q1, q2 \in 1..Len(questions) :
        /\ q1 # q2
        /\ task[q1].pendingDownloads # {}
        /\ task[q2].pendingDownloads # {}
        /\ \A i \in task[q1].pendingDownloads : \A k \in task[q2].pendingDownloads :
              ContentKey(task[q1].existingPolicies[i])
                  # ContentKey(task[q2].existingPolicies[k])

----------------------------------------------------------------------------
(* Properties of the cache-clear entry point *)

\* C26: cache reset. The step of the clearCache endpoint leaves every cache
\* empty: the content and judgment cache of the processor, the ranking cache,
\* the cache of file ids, and the download, metadata and listing caches of
\* the document store.
C26_CacheReset ==
    [][(DOMAIN cache # {} /\ DOMAIN cache' = {}) =>
          /\ DOMAIN relevanceScoringCache' = {}
          /\ DOMAIN policyFileIdCache' = {}
          /\ downloadCache' = {}
          /\ \A key \in DriveCacheKeys : cachedAt'[key] = Absent]_vars

\* the clearCache endpoint has run after a run with the index loaded: the
\* cache of the processor is empty
C26_Witness ==
    /\ runState = "returned"
    /\ isLoaded
    /\ DOMAIN cache = {}
    /\ \E q \in 1..Len(questions) : Len(task[q].value) > 0

----------------------------------------------------------------------------
(* Properties of the existence checks *)

\* C21: existence checks never fail as a whole. The call is never rejected;
\* when it has returned, the Map of batchCheckFilesExist has a boolean for
\* every file id asked for, false exactly for the ids whose check did not
\* find the file or failed, and batchCheckPolicyExistence has returned one
\* boolean per policy, in the order of the policies: false for a policy
\* without file id, the boolean of its file id otherwise.
C21_ExistenceChecksIsolated ==
    existCall # Null =>
        /\ Checked.st # "rejected"
        /\ (Checked.st = "done" /\ Len(Checked.fileIds) > 0) =>
              /\ DOMAIN Checked.results = {Checked.fileIds[i] : i \in 1..Len(Checked.fileIds)}
              /\ \A i \in 1..Len(Checked.fileIds) :
                    /\ Checked.results[Checked.fileIds[i]] \in BOOLEAN
                    /\ Checked.results[Checked.fileIds[i]]
                          <=> Checked.outcome[i] \in {"cached", "found"}
                    /\ Checked.outcome[i] = "found" => DriveFileExists(Checked.fileIds[i])
        /\ Checked.st = "done" =>
              /\ Len(Checked.value) = Len(Checked.policies)
              /\ \A p \in 1..Len(Checked.policies) :
                    Checked.value[p] =
                        IF PreloadedFileId(Checked.policies[p]) = "" THEN FALSE
                        ELSE Checked.results[PreloadedFileId(Checked.policies[p])]

\* twelve policies have been checked in two batches: one file was not found,
\* the call for another failed, one policy has no file id, and the others
\* exist
C21_Witness ==
    /\ existCall # Null
    /\ Checked.st = "done"
    /\ Len(Checked.policies) = 12
    /\ Checked.batch = 2
    /\ Checked.errors = 1
    /\ Checked.value[10] = FALSE
    /\ Checked.value[11] = FALSE
    /\ Cardinality({p \in 1..12 : Checked.value[p]}) = 9

----------------------------------------------------------------------------
(* Properties of the repair of a response *)

\* parseJSONResponse has been called with this response and has returned or
\* thrown
ParsedResponse(response, expectQuestionsArray) ==
    /\ pureCall # Null
    /\ Called.fn = "parseJSONResponse"
    /\ Called.returned
    /\ Called.args = <<response, expectQuestionsArray>>

\* C24: depth-balancing recovery. For a well-formed judgment with hasAnswer
\* and confidence whose last k closing braces are missing, parseJSONResponse
\* appends exactly k closing braces and returns the judgment, not an error.
C24_DepthBalancingRecovery ==
    \A k \in 1..MaxMissingBraces : \A judgment \in EndsWithBraces(k) :
        ParsedResponse(MissingBraces(judgment, k), FALSE) =>
            /\ ~Called.result.threw
            /\ Called.result.appended = k
            /\ Called.result.value = JSONparse(judgment).value

\* a judgment with an object inside has lost its last two closing braces and
\* has been handed to parseJSONResponse
C24_Witness ==
    \E judgment \in EndsWithBraces(2) :
        /\ ParsedResponse(MissingBraces(judgment, 2), FALSE)
        /\ Called.result.tried = <<"direct", "depth">>

\* findLastCompleteQuestion has been called with this text and has returned
RepairedResponse(jsonString) ==
    /\ pureCall # Null
    /\ Called.fn = "findLastCompleteQuestion"
    /\ Called.returned
    /\ Called.args = <<jsonString>>

\* C25: pattern-based recovery. For an extraction response with the complete
\* question objects q1..qm and a last object that is cut off,
\* findLastCompleteQuestion returns the collection of q1..qm in this order
\* and nothing of the object that is cut off.
C25_PatternBasedRecovery ==
    \A m \in 1..MaxQuestionsInResponse, cut \in CutPoints :
        RepairedResponse(TruncatedExtraction(m, cut)) =>
            /\ Called.result.found
            /\ ~JSONparse(Called.result.json).threw
            /\ JSONparse(Called.result.json).value = JSONparse(CompleteExtraction(m)).value

\* a response with two complete question objects, cut off inside the third,
\* has been repaired by the pattern
C25_Witness ==
    \E cut \in CutPoints :
        /\ RepairedResponse(TruncatedExtraction(2, cut))
        /\ Called.result.found
        /\ ~Called.result.scanned

\* the response parseJSONResponse works on, after lines 1614-1628
CleanedResponse(response) == trim(WithoutFence(trim(response)))

\* C30: the order of the recovery. parseJSONResponse strips the fences and
\* stops at the first strategy that succeeds: for an extraction response the
\* direct parse, then the pattern, then the scan of the characters only if
\* the pattern found nothing; for a judgment the direct parse, then the
\* balancing of the braces, once. When every strategy fails it throws, and a
\* value it returns has passed the validation.
C30_RecoveryOrder ==
    (pureCall # Null /\ Called.fn = "parseJSONResponse" /\ Called.returned) =>
        LET expectQuestionsArray == Called.args[2]
            cleanedResponse == CleanedResponse(Called.args[1])
            direct == ParsedAndValidated(cleanedResponse, expectQuestionsArray)
            outcome == Called.result
        IN  /\ ~direct.threw =>
                  /\ outcome.tried = <<"direct">>
                  /\ ~outcome.threw
                  /\ outcome.value = direct.value
            /\ (direct.threw /\ expectQuestionsArray) =>
                  /\ SubSeq(outcome.tried, 1, 2) = <<"direct", "pattern">>
                  /\ outcome.tried \in {<<"direct", "pattern">>,
                                        <<"direct", "pattern", "scanning">>}
                  /\ outcome.tried = <<"direct", "pattern", "scanning">>
                        <=> Len(CompleteMatches(WithoutFences(cleanedResponse))) = 0
            /\ (direct.threw /\ ~expectQuestionsArray) =>
                  outcome.tried = <<"direct", "depth">>
            /\ outcome.threw => outcome.value = JNull
            /\ ~outcome.threw =>
                  validateParsedResponse(outcome.value, expectQuestionsArray)
                      = Returned(outcome.value)

\* a judgment that does not parse as it is and ends with a closing brace has
\* been handed to parseJSONResponse, which has thrown
C30_Witness ==
    /\ pureCall # Null
    /\ Called.fn = "parseJSONResponse"
    /\ Called.returned
    /\ ~Called.args[2]
    /\ JSONparse(CleanedResponse(Called.args[1])).threw
    /\ endsWith(CleanedResponse(Called.args[1]), "}")
    /\ Called.result.threw

----------------------------------------------------------------------------
(* Properties of the extraction in chunks *)

\* the questions of the fulfilled calls among the chunks from `chunk' on, in
\* the order of the chunks
RECURSIVE FulfilledQuestions(_, _)
FulfilledQuestions(call, chunk) ==
    IF chunk > call.chunks THEN <<>>
    ELSE (IF call.status[chunk] = "fulfilled" THEN call.value[chunk] ELSE <<>>)
         \o FulfilledQuestions(call, chunk + 1)

\* C23: question id uniqueness. The ids in the list that
\* extractQuestionsInChunksParallel builds and returns are 1, 2, ..., n in the
\* order of the list, whatever ids the reasoning capability gave and in
\* whatever order the calls settled; the returned list holds the questions of
\* the chunks whose call was fulfilled, in the order of the chunks, and none
\* of a chunk whose call failed.
C23_QuestionIdsSequential ==
    extractCall # Null =>
        /\ \A i \in 1..Len(Extracted.allQuestions) : Extracted.allQuestions[i].id = i
        /\ Extracted.questionIdCounter = Len(Extracted.allQuestions) + 1
        /\ Extracted.st = "returned" =>
              /\ Len(Extracted.allQuestions) = Len(FulfilledQuestions(Extracted, 1))
              /\ \A i \in 1..Len(Extracted.allQuestions) :
                    /\ Extracted.allQuestions[i].chunk = FulfilledQuestions(Extracted, 1)[i].chunk
                    /\ Extracted.allQuestions[i].index = FulfilledQuestions(Extracted, 1)[i].index
                    /\ Extracted.allQuestions[i].returned
                           = FulfilledQuestions(Extracted, 1)[i].returned

\* four chunks in two batches: in each batch the second call settled first,
\* the call of chunk 2 failed, the reasoning capability gave the id 7 twice
\* in chunk 1 and the ids 2, 1 in chunk 3, and the call has returned five
\* questions
C23_Witness ==
    /\ extractCall # Null
    /\ Extracted.st = "returned"
    /\ Extracted.chunks = 4
    /\ Extracted.settled = <<2, 1, 4, 3>>
    /\ Extracted.status[2] = "rejected"
    /\ Len(Extracted.allQuestions) = 5
    /\ Extracted.allQuestions[1].returned = 7
    /\ Extracted.allQuestions[2].returned = 7
    /\ Extracted.allQuestions[3].returned = 2
    /\ Extracted.allQuestions[4].returned = 1
    /\ Extracted.allQuestions[5].chunk = 4

----------------------------------------------------------------------------
(* Properties of the inputs of a run *)

\* C35: inputs are read-only. No stage changes a question or an entry of the
\* policy index it is handed: every question is as it was handed to
\* processQuestionsInParallel, its keywords in the same order, and every
\* entry of the index is as it was loaded.
C35_InputsReadOnly ==
    /\ \A i \in 1..Len(questions) :
          /\ questions[i].keywords = QuestionInput(i).keywords
          /\ questions[i].text = QuestionInput(i).text
          /\ questions[i].category = QuestionInput(i).category
          /\ questions[i].description = QuestionInput(i).description
          /\ questions[i].id = QuestionInput(i).id
    /\ \A j \in 1..Len(policyIndex) : policyIndex[j] = CatalogueEntry(j)

\* findRelevantPolicies has ranked the index for question 1, whose keywords
\* were handed in as logs, audit
C35_Witness ==
    /\ isLoaded
    /\ Len(questions) >= 1
    /\ Len(task[1].relevantPolicies) > 0
    /\ QuestionInput(1).keywords = <<"logs", "audit">>

----------------------------------------------------------------------------
(* Properties of the category bonus *)

\* calculateRelevanceScore has been called for this question and this entry
\* of the index and has returned
ScoredPair(question, policy) ==
    /\ pureCall # Null
    /\ Called.fn = "calculateRelevanceScore"
    /\ Called.returned
    /\ Called.args = <<question, policy>>

\* the question and the entry with their categories in lower case
LowerCategory(input) == [input EXCEPT !.category = toLowerCase(@)]

\* C34: category normalization. When the category of the question and the
\* category of the document are equal after lower-casing, the category bonus
\* of 50 is part of the score: the score is the one of the same question and
\* document with both categories written in lower case, which is at least 50.
C34_CategoryNormalization ==
    \A question \in ScoredQuestions, policy \in ScoredPolicies :
        (/\ ScoredPair(question, policy)
         /\ toLowerCase(question.category) = toLowerCase(policy.category)) =>
            /\ Called.result >= 50
            /\ Called.result
                   = calculateRelevanceScore(normalizeQuestion(LowerCategory(question)),
                                             normalizePolicy(LowerCategory(policy)))

\* a question of the category privacy has been scored against a document of
\* the category Privacy
C34_Witness ==
    \E question \in ScoredQuestions, policy \in ScoredPolicies :
        /\ ScoredPair(question, policy)
        /\ question.category = "privacy"
        /\ policy.category = "Privacy"

----------------------------------------------------------------------------
(* Properties of the candidates *)

\* C36: evidence identity. The candidate a call of analyzyePolicyWithCache
\* returns carries the name, the subfolder and the score of the document the
\* call was made for, also when it is taken from the cache.
C36_EvidenceIdentity ==
    \A c \in JudgmentCalls :
        (jcall[c].st = "done" /\ jcall[c].value # Null) =>
            /\ jcall[c].value[1].docName = JudgedPolicy(jcall[c].document).pdf_name
            /\ jcall[c].value[1].subfolder = JudgedPolicy(jcall[c].document).subfolder
            /\ jcall[c].value[1].score = JudgedPolicy(jcall[c].document).score

\* two documents have the same first 1000 characters and differ after them;
\* a call for the first has found evidence, and a call for the second with
\* the same question has been answered from the cache
C36_Witness ==
    /\ Len(TemplateHeader) = 1000
    /\ JudgedText(20) # JudgedText(21)
    /\ \E c, d \in JudgmentCalls :
          /\ jcall[c].st = "done" /\ jcall[c].document = 20 /\ jcall[c].invoked
          /\ jcall[c].value # Null
          /\ jcall[d].st = "done" /\ jcall[d].document = 21 /\ ~jcall[d].invoked
          /\ jcall[d].question = jcall[c].question

----------------------------------------------------------------------------
(* Properties of splitTextIntoChunks *)

\* a call of splitTextIntoChunks(text, chunkSize) has returned
SplitReturned ==
    /\ pureCall # Null
    /\ Called.fn = "splitTextIntoChunks"
    /\ Called.returned

\* the index of the text (from 0) where chunk i starts
RECURSIVE ChunkStart(_, _)
ChunkStart(chunks, i) ==
    IF i = 1 THEN 0 ELSE ChunkStart(chunks, i - 1) + Len(chunks[i - 1])

\* index q of the text holds a question mark that lies beyond 70% of the chunk
\* size from the start of the chunk
BeyondThreshold(text, chunkSize, start, q) ==
    /\ At(text, q + 1) = "?"
    /\ 10 * (q - start) > 7 * chunkSize

\* C32: for every text and every chunk size >= 1 splitTextIntoChunks
\* terminates (every pass of its loop moves start forward) and returns
\* non-empty chunks whose concatenation in order is the text; a chunk that is
\* not the last ends at start + chunkSize or just after a question mark that
\* lies beyond 70% of the chunk size from its start, and it ends just after a
\* question mark whenever such a question mark lies inside start + chunkSize.
C32_ChunkSplitting ==
    SplitReturned =>
        LET text == Called.args[1]
            chunkSize == Called.args[2]
            chunks == Called.result
        IN  /\ \A start \in 0..(Len(text) - 1) : chunkEnd(text, chunkSize, start) > start
            /\ \A i \in DOMAIN chunks : chunks[i] # ""
            /\ join(chunks, "") = text
            /\ \A i \in 1..(Len(chunks) - 1) :
                  LET start == ChunkStart(chunks, i)
                      end == start + Len(chunks[i])
                  IN  /\ \/ end = start + chunkSize
                         \/ BeyondThreshold(text, chunkSize, start, end - 1)
                      /\ (\E q \in start..(start + chunkSize - 1) :
                             BeyondThreshold(text, chunkSize, start, q))
                         => BeyondThreshold(text, chunkSize, start, end - 1)

\* a chunk that is not the last was cut after a question mark before the raw
\* boundary, although an earlier question mark lies in it
C32_Witness ==
    /\ SplitReturned
    /\ LET chunkSize == Called.args[2]
           chunks == Called.result
       IN  \E i \in 1..(Len(chunks) - 1) :
              /\ Len(chunks[i]) < chunkSize
              /\ At(chunks[i], Len(chunks[i])) = "?"
              /\ At(chunks[i], 1) = "?"

\* C40: every chunk returned by splitTextIntoChunks(text, chunkSize) has at
\* most chunkSize characters, wherever the question marks of the text are.
C40_ChunkSizeBound ==
    SplitReturned =>
        \A i \in DOMAIN Called.result : Len(Called.result[i]) <= Called.args[2]

\* a text with question marks has been split into several chunks
C40_Witness ==
    /\ SplitReturned
    /\ Len(Called.result) >= 2
    /\ \E i \in DOMAIN Called.result :
          At(Called.result[i], Len(Called.result[i])) = "?"

----------------------------------------------------------------------------
(* Properties of validateParsedResponse *)

\* a call of validateParsedResponse has returned or thrown
ValidateReturned ==
    /\ pureCall # Null
    /\ Called.fn = "validateParsedResponse"
    /\ Called.returned

\* the entry lacks one of the five fields of a question
Lacks(entry) == \E field \in RequiredQuestionFields : ~TruthyMember(entry, field)

\* C31: for a parsed extraction response with a questions array,
\* validateParsedResponse raises no error and leaves in the array exactly the
\* entries that lack none of id, text, category, keywords and description, in
\* their order; for a parsed judgment without hasAnswer or without confidence
\* it raises an error and returns no judgment.
C31_ResponseValidation ==
    ValidateReturned =>
        LET parsed == Called.args[1]
            result == Called.result
        IN  IF Called.args[2]
            THEN (HasKey(parsed, "questions") /\ Member(parsed, "questions").type = "array")
                 => /\ ~result.threw
                    /\ Member(result.value, "questions").items
                         = SelectSeq(Member(parsed, "questions").items,
                                     LAMBDA q : ~Lacks(q.value))
            ELSE (\E field \in requiredFields : ~HasKey(parsed, field)) => result.threw

\* an entry of the questions array was removed and the entries before and
\* after it were kept
C31_Witness ==
    /\ ValidateReturned
    /\ Called.args[2]
    /\ ~Called.result.threw
    /\ Len(Member(Called.args[1], "questions").items) = 3
    /\ Lacks(Member(Called.args[1], "questions").items[2].value)
    /\ Len(Member(Called.result.value, "questions").items) = 2

----------------------------------------------------------------------------
(* Properties of findKeywordPositions *)

\* C39: findKeywordPositions terminates for every text and every keyword, the
\* empty keyword included: every pass of its loop ends the loop or moves the
\* index forward, and the index is at most the length of the text.
C39_KeywordScanTerminates ==
    [][KeywordFound =>
          /\ scanCall'[1].index <= Len(Scan.text)
          /\ scanCall'[1].index = -1 \/ scanCall'[1].index > Scan.index]_vars

\* a scan has returned several positions of a keyword
C39_Witness ==
    /\ scanCall # Null
    /\ Scan.at = "returned"
    /\ Len(Scan.positions) >= 2

----------------------------------------------------------------------------
(* Properties of smartTruncatePolicyText *)

\* a call of smartTruncatePolicyText(text, keywords) has returned
TruncateReturned ==
    /\ pureCall # Null
    /\ Called.fn = "smartTruncatePolicyText"
    /\ Called.returned

\* the ascending indexes (from 0) where a keyword of the question occurs in
\* the text, whatever the case of the letters, each index once
OccurrencesOf(text, keywords) ==
    LET lower == toLowerCase(text)
        places == {p \in 1..Len(text) : \E k \in 1..Len(keywords) :
                      /\ keywords[k] # ""
                      /\ p + Len(keywords[k]) - 1 <= Len(text)
                      /\ SubSeq(lower, p, p + Len(keywords[k]) - 1)
                            = toLowerCase(keywords[k])}
        RECURSIVE Ascending(_)
        Ascending(left) ==
            IF left = {} THEN <<>>
            ELSE LET p == CHOOSE q \in left : \A r \in left : q <= r
                 IN  <<p - 1>> \o Ascending(left \ {p})
    IN  Ascending(places)

\* the windows [pos - 500, pos + 1500] around the occurrences, each once, one
\* after the other
DistinctWindows(text, keywords) ==
    LET occurrences == OccurrencesOf(text, keywords)
    IN  join([i \in 1..Len(occurrences) |->
                 SubSeq(text, Max(0, occurrences[i] - 500) + 1,
                        Min(Len(text), occurrences[i] + 1500))], "\n...\n")

\* C33: smartTruncatePolicyText returns a text of at most 18,000 characters
\* unchanged; for a longer text it returns the windows around the occurrences
\* of the keywords, each window once, when a keyword occurs and the windows
\* together have at most 18,000 characters, and the first 18,000 characters
\* followed by the truncation marker otherwise; the result is never longer
\* than 18,000 characters plus the marker.
C33_ExcerptSelection ==
    TruncateReturned =>
        LET text == Called.args[1]
            keywords == Called.args[2]
            windows == DistinctWindows(text, keywords)
        IN  /\ Called.result =
                  IF Len(text) <= maxLength THEN text
                  ELSE IF windows # "" /\ Len(windows) <= maxLength THEN windows
                  ELSE SubSeq(text, 1, maxLength) \o "...[truncated]"
            /\ Len(Called.result) <= maxLength + Len("...[truncated]")

\* the windows around two occurrences of a keyword were returned for a text
\* of more than 18,000 characters
C33_Witness ==
    /\ TruncateReturned
    /\ Len(Called.args[1]) > maxLength
    /\ Len(OccurrencesOf(Called.args[1], Called.args[2])) = 2
    /\ Called.result = DistinctWindows(Called.args[1], Called.args[2])

----------------------------------------------------------------------------
(* Properties of processingStats *)

\* the candidates of all the evidence lists collected so far
RECURSIVE TotalCandidates(_)
TotalCandidates(ids) ==
    IF ids = {} THEN 0
    ELSE LET id == CHOOSE i \in ids : TRUE
         IN  Len(evidenceByQuestion[id]) + TotalCandidates(ids \ {id})

StatsConsistent ==
    /\ processingStats.compliantAnswers + processingStats.nonCompliantAnswers
          <= processingStats.evidenceFound
    /\ processingStats.evidenceFound <= processingStats.totalPoliciesChecked
    /\ runState = "returned" =>
          /\ processingStats.questionsProcessed = processingStats.totalQuestions
          /\ processingStats.totalQuestions = Len(questions)
          /\ DOMAIN evidenceByQuestion = {questions[q].id : q \in 1..Len(questions)}
          /\ processingStats.evidenceFound = TotalCandidates(DOMAIN evidenceByQuestion)

StatsNonDecreasing ==
    \A counter \in DOMAIN processingStats :
        processingStats'[counter] >= processingStats[counter]

\* C37: in every state of a run compliantAnswers + nonCompliantAnswers <=
\* evidenceFound <= totalPoliciesChecked and no step lowers a counter; when
\* processQuestionsInParallel has returned, questionsProcessed is
\* totalQuestions, evidenceByQuestion has one entry per question id, and
\* evidenceFound is the number of candidates of all the evidence lists.
C37_StatsConsistency == []StatsConsistent /\ [][StatsNonDecreasing]_vars

\* the run has returned with candidates that answer yes, candidates that
\* answer no, and documents that were checked without evidence
C37_Witness ==
    /\ runState = "returned"
    /\ processingStats.compliantAnswers > 0
    /\ processingStats.nonCompliantAnswers > 0
    /\ processingStats.evidenceFound < processingStats.totalPoliciesChecked
    /\ processingStats.totalQuestions > 3

----------------------------------------------------------------------------
(* Properties of the direction of adjustAdaptiveDelay *)

\* a call of adjustAdaptiveDelay has returned
AdjustReturned ==
    /\ pureCall # Null
    /\ Called.fn = "adjustAdaptiveDelay"
    /\ Called.returned

\* the last 10 entries of the history the call was made with
RecentHistory == LastN(Called.args[1], HistoryWindow)

RecentFailures == Cardinality({i \in 1..Len(RecentHistory) : ~RecentHistory[i].success})

\* C38: after a completed call the pause lies within [500, 5000] ms; when
\* more than 2 of the recent calls failed or their average duration exceeds
\* 8000 ms the pause is not lowered, and it is lowered only when none failed
\* and the average duration is below 3000 ms.
C38_DelayBoundsAndDirection ==
    AdjustReturned =>
        LET delay == Called.args[2]
            after == Called.result.adaptiveDelay
            total == SumDurations(RecentHistory)
            n     == Len(RecentHistory)
        IN  /\ after >= 500 * DelayScale
            /\ after <= 5000 * DelayScale
            /\ (RecentFailures > 2 \/ total > 8000 * n) => after >= delay
            /\ after < delay => (RecentFailures = 0 /\ total < 3000 * n)

\* the pause of 1000 ms was lowered to 900 ms by the branch of the fast calls
\* without failure
C38_Witness ==
    /\ AdjustReturned
    /\ RecentFailures = 0
    /\ SumDurations(RecentHistory) < 3000 * Len(RecentHistory)
    /\ Called.args[2] = 1000 * DelayScale
    /\ Called.result.adaptiveDelay = 900 * DelayScale

====
